---- MODULE Spec2Model ----
(***************************************************************************)
(* Model of the lifepic-backend sync pipeline (app/routers/sync.py) with   *)
(* the TDX services it calls (app/services/tdx_parking.py,                 *)
(* app/services/tdx_charging.py) and the tables it writes                  *)
(* (app/models/parking.py, app/models/charging.py).                        *)
(***************************************************************************)
EXTENDS Integers, Sequences, FiniteSets, TLC

(***************************************************************************)
(* Python values.  Every value is a record tagged with its type, so that   *)
(* None, strings, numbers, datetimes and dicts can be compared.            *)
(***************************************************************************)
None == [t |-> "none"]

Str(s) == [t |-> "str", v |-> s]

Num(n) == [t |-> "num", v |-> n]

\* a naive datetime whose clock reads n
Dt(n) == [t |-> "dt", v |-> n]

\* an ISO-8601 string for clock reading n with suffix tz ("Z", "+08:00" or "")
Iso(n, tz) == [t |-> "str", v |-> "iso", clock |-> n, tz |-> tz]

EmptyDict == [t |-> "dict"]

\* dict.get(k, default)
Get(d, k, default) == IF k \in DOMAIN d THEN d[k] ELSE default

\* d[k] = v
Put(d, k, v) == [x \in DOMAIN d \cup {k} |-> IF x = k THEN v ELSE d[x]]

\* Python truthiness
Truthy(v) ==
    CASE v.t = "none" -> FALSE
      [] v.t = "str"  -> v.v # ""
      [] v.t = "num"  -> v.v # 0
      [] v.t = "dict" -> DOMAIN v # {"t"}
      [] OTHER        -> TRUE

\* a or b
Or(a, b) == IF Truthy(a) THEN a ELSE b

\* x.get("Zh_tw") or x.get("En") or fallback
Localized(x, fallback) == Or(Get(x, "Zh_tw", None), Or(Get(x, "En", None), fallback))

(***************************************************************************)
(* TDXParkingService.parse_parking_lot and merge_availability              *)
(***************************************************************************)
\* position.get(...) raises AttributeError when CarParkPosition is not a dict
ParkingParseRaises(data) == Get(data, "CarParkPosition", EmptyDict).t # "dict"

parse_parking_lot(data, city) ==
    LET position == Get(data, "CarParkPosition", EmptyDict)
        name0    == Get(data, "CarParkName", EmptyDict)
        name     == IF name0.t = "dict" THEN Localized(name0, Str("Unknown")) ELSE name0
        address0 == Get(data, "Address", Str(""))
        address  == IF address0.t = "dict" THEN Localized(address0, Str("")) ELSE address0
        fare0    == Get(data, "FareDescription", Str(""))
        fare     == IF fare0.t = "dict" THEN Localized(fare0, Str("")) ELSE fare0
    IN  [park_id          |-> Get(data, "CarParkID", Str("")),
         name             |-> name,
         city             |-> Str(city),
         address          |-> address,
         latitude         |-> Get(position, "PositionLat", None),
         longitude        |-> Get(position, "PositionLon", None),
         total_spaces     |-> Get(data, "TotalSpaces", None),
         fare_description |-> fare,
         parking_type     |-> Str("OffStreet")]

\* datetime.fromisoformat(s.replace("Z", "+00:00")) succeeds
IsoParses(s) == s.t = "str" /\ "clock" \in DOMAIN s

\* fromisoformat(...) followed by dt.replace(tzinfo=None): the clock reading
\* is kept and the offset is dropped
NaiveOf(s) == Dt(s.clock)

\* a merge that nulls the timestamp it cannot parse
MergeTimeNulls(rec, update_time) ==
    IF Truthy(update_time)
    THEN Put(rec, "data_updated_at",
             IF IsoParses(update_time) THEN NaiveOf(update_time) ELSE None)
    ELSE rec

\* the timestamp branch shared by both merge_availability methods
MergeTime(rec, update_time) ==
    IF Truthy(update_time) /\ IsoParses(update_time)
    THEN Put(rec, "data_updated_at", NaiveOf(update_time))
    ELSE rec

\* a merge that reports no free space for a car park it has no entry for
parking_merge_zeroes(parking_lot, availability_map) ==
    IF parking_lot.park_id \in DOMAIN availability_map
    THEN LET avail == availability_map[parking_lot.park_id]
             lot1  == Put(parking_lot, "available_spaces", Get(avail, "AvailableSpaces", None))
         IN  MergeTime(lot1, Or(Get(avail, "DataCollectTime", None),
                                Get(avail, "SrcUpdateTime", None)))
    ELSE Put(parking_lot, "available_spaces", Num(0))

parking_merge_availability(parking_lot, availability_map) ==
    IF parking_lot.park_id \in DOMAIN availability_map
    THEN LET avail == availability_map[parking_lot.park_id]
             lot1  == Put(parking_lot, "available_spaces", Get(avail, "AvailableSpaces", None))
         IN  MergeTime(lot1, Or(Get(avail, "DataCollectTime", None),
                                Get(avail, "SrcUpdateTime", None)))
    ELSE parking_lot

(***************************************************************************)
(* TDXChargingService.parse_charging_station and merge_availability        *)
(***************************************************************************)
ChargingParseRaises(data) == Get(data, "Position", EmptyDict).t # "dict"

RECURSIVE ConnectorTypes(_)
\* the set of truthy ConnectorType values of a connector list
ConnectorTypes(connectors) ==
    IF connectors = <<>> THEN {}
    ELSE LET ct == Get(Head(connectors), "ConnectorType", Str(""))
         IN  (IF Truthy(ct) THEN {ct} ELSE {}) \cup ConnectorTypes(Tail(connectors))

\* None when falsy
OrNone(v) == IF Truthy(v) THEN v ELSE None

parse_charging_station(data, city) ==
    LET position   == Get(data, "Position", EmptyDict)
        name0      == Get(data, "StationName", EmptyDict)
        name       == IF name0.t = "dict" THEN Localized(name0, Str("Unknown"))
                      ELSE IF ~Truthy(name0) THEN Str("Unknown") ELSE name0
        address0   == Get(data, "Address", Str(""))
        address    == IF address0.t = "dict" THEN Localized(address0, Str("")) ELSE address0
        operator0  == Get(data, "OperatorName", Str(""))
        operator   == IF operator0.t = "dict" THEN Localized(operator0, Str("")) ELSE operator0
        connectors == Get(data, "Connectors", <<>>)
        types      == ConnectorTypes(connectors)
        fee0       == Get(data, "ChargingFee", Str(""))
        fee        == IF fee0.t = "dict" THEN Localized(fee0, Str("")) ELSE fee0
        pfee0      == Get(data, "ParkingFee", Str(""))
        pfee       == IF pfee0.t = "dict" THEN Localized(pfee0, Str("")) ELSE pfee0
    IN  [station_id      |-> Get(data, "StationID", Str("")),
         name            |-> name,
         address         |-> address,
         city            |-> Str(city),
         latitude        |-> Get(position, "PositionLat", None),
         longitude       |-> Get(position, "PositionLon", None),
         operator_name   |-> OrNone(operator),
         phone           |-> Get(data, "Phone", None),
         is_24h          |-> Get(data, "Is24Hours", None),
         business_hours  |-> Get(data, "ServiceTime", None),
         total_chargers  |-> IF Len(connectors) > 0 THEN Num(Len(connectors)) ELSE None,
         charger_types   |-> IF types # {} THEN [t |-> "joined", v |-> types] ELSE None,
         fee_description |-> OrNone(fee),
         parking_fee     |-> OrNone(pfee)]

RECURSIVE CountAvailable(_)
\* sum(1 for s in connectors if s.get("Status") == "Available")
CountAvailable(connectors) ==
    IF connectors = <<>> THEN 0
    ELSE (IF Get(Head(connectors), "Status", None) = Str("Available") THEN 1 ELSE 0)
         + CountAvailable(Tail(connectors))

charging_merge_availability(station, availability_map) ==
    IF station.station_id \in DOMAIN availability_map
    THEN LET avail == availability_map[station.station_id]
             st1   == Put(station, "available_chargers",
                          Num(CountAvailable(Get(avail, "Connectors", <<>>))))
         IN  MergeTime(st1, Or(Get(avail, "UpdateTime", None),
                               Get(avail, "SrcUpdateTime", None)))
    ELSE station

RECURSIVE BuildMapFirstWins(_, _)
\* a map that keeps the first item of each key
BuildMapFirstWins(items, key) ==
    IF items = <<>> THEN <<>>
    ELSE LET last == items[Len(items)]
             rest == BuildMapFirstWins(SubSeq(items, 1, Len(items) - 1), key)
             k    == Get(last, key, None)
         IN  IF Truthy(k) /\ k \notin DOMAIN rest
             THEN [x \in DOMAIN rest \cup {k} |-> IF x = k THEN last ELSE rest[x]]
             ELSE rest

RECURSIVE BuildMap(_, _)
\* {item.get(key): item for item in items if item.get(key)}: a later item
\* with the same key replaces an earlier one
BuildMap(items, key) ==
    IF items = <<>> THEN <<>>
    ELSE LET last == items[Len(items)]
             rest == BuildMap(SubSeq(items, 1, Len(items) - 1), key)
             k    == Get(last, key, None)
         IN  IF Truthy(k)
             THEN [x \in DOMAIN rest \cup {k} |-> IF x = k THEN last ELSE rest[x]]
             ELSE rest

(***************************************************************************)
(* Bounds of the model                                                     *)
(***************************************************************************)
\* partitions synced in one behaviour, over all its sync invocations
MaxPartitions == 3

\* the same, where two clients run their invocations concurrently
MaxConcurrentPartitions == 2

(***************************************************************************)
(* Partitions.  SUPPORTED_CITIES and SUPPORTED_CITIES_EV hold the same 22  *)
(* codes; the model keeps three of them.  The charging default list is the *)
(* six major cities, of which the model keeps the two it has.              *)
(***************************************************************************)
SUPPORTED_CITIES == {"Taipei", "NewTaipei", "Keelung"}

SUPPORTED_CITIES_ORDER == <<"Taipei", "NewTaipei", "Keelung">>

SUPPORTED_CITIES_EV == {"Taipei", "NewTaipei", "Keelung"}

CHARGING_DEFAULT_CITIES == <<"Taipei", "NewTaipei">>

Sessions == {1, 2}

(***************************************************************************)
(* The tables.  A row is a record; a table is a set of rows.               *)
(***************************************************************************)
\* the rows of a table that conflict with a proposed value of a unique column
ConflictRows(table, key, val) == {r \in table : r[key] = val}

\* a SET clause that leaves updated_at as it was
OverwriteKeepsUpdatedAt(row, set_) ==
    [c \in DOMAIN row |-> IF c \in DOMAIN set_ \ {"updated_at"} THEN set_[c] ELSE row[c]]

\* a SET clause that keeps the stored value where the new one is NULL
OverwriteKeepsWhenNull(row, set_) ==
    [c \in DOMAIN row |-> IF c \in DOMAIN set_ /\ set_[c] # None THEN set_[c] ELSE row[c]]

\* the SET clause applied to an existing row
Overwrite(row, set_) == [c \in DOMAIN row |-> IF c \in DOMAIN set_ THEN set_[c] ELSE row[c]]

\* INSERT ... ON CONFLICT (key) DO UPDATE SET set_: the row the statement
\* writes, given the rows it can see; defaults are the column defaults
\* (id, created_at) a fresh row gets
UpsertRow(table, key, values, set_, defaults) ==
    IF ConflictRows(table, key, values[key]) # {}
    THEN Overwrite(CHOOSE r \in ConflictRows(table, key, values[key]) : TRUE, set_)
    ELSE [c \in DOMAIN values \cup DOMAIN defaults |->
            IF c \in DOMAIN values THEN values[c] ELSE defaults[c]]

\* the rows of a transaction's write set, with one more row written
TxWrite(delta, row) == {r \in delta : r.id # row.id} \cup {row}

\* what a session sees: the committed rows, as overwritten by its own writes
View(committed, delta) == {r \in committed : r.id \notin {d.id : d \in delta}} \cup delta

\* ParkingLot.name and ParkingLot.city are NOT NULL columns: the database
\* refuses a NULL there, which aborts the open transaction
ParkingRejects(values) == values.name = None \/ values.city = None

\* ChargingStation.name is a NOT NULL column and phone a text column: the
\* statement fails for a NULL name or a phone that is no text
ChargingRejects(values) == values.name = None \/ values.phone.t \notin {"none", "str"}

\* insert(ParkingLot).values(...) of trigger_sync
ParkingValues(parsed, t) ==
    [park_id          |-> parsed.park_id,
     name             |-> parsed.name,
     city             |-> parsed.city,
     address          |-> Get(parsed, "address", None),
     latitude         |-> Get(parsed, "latitude", None),
     longitude        |-> Get(parsed, "longitude", None),
     total_spaces     |-> Get(parsed, "total_spaces", None),
     available_spaces |-> Get(parsed, "available_spaces", None),
     fare_description |-> Get(parsed, "fare_description", None),
     parking_type     |-> Get(parsed, "parking_type", None),
     data_updated_at  |-> Get(parsed, "data_updated_at", None),
     updated_at       |-> Dt(t)]

\* a set_ that leaves available_spaces out
ParkingSetWithoutAvailability(parsed, t) ==
    [name             |-> parsed.name,
     address          |-> Get(parsed, "address", None),
     latitude         |-> Get(parsed, "latitude", None),
     longitude        |-> Get(parsed, "longitude", None),
     total_spaces     |-> Get(parsed, "total_spaces", None),
     fare_description |-> Get(parsed, "fare_description", None),
     data_updated_at  |-> Get(parsed, "data_updated_at", None),
     updated_at       |-> Dt(t)]

\* on_conflict_do_update(index_elements=["park_id"], set_={...}) of trigger_sync
ParkingSet(parsed, t) ==
    [name             |-> parsed.name,
     address          |-> Get(parsed, "address", None),
     latitude         |-> Get(parsed, "latitude", None),
     longitude        |-> Get(parsed, "longitude", None),
     total_spaces     |-> Get(parsed, "total_spaces", None),
     available_spaces |-> Get(parsed, "available_spaces", None),
     fare_description |-> Get(parsed, "fare_description", None),
     data_updated_at  |-> Get(parsed, "data_updated_at", None),
     updated_at       |-> Dt(t)]

\* insert(ChargingStation).values(...) of trigger_charging_sync
ChargingValues(parsed, t) ==
    [station_id         |-> parsed.station_id,
     name               |-> parsed.name,
     address            |-> Get(parsed, "address", None),
     city               |-> Get(parsed, "city", None),
     latitude           |-> Get(parsed, "latitude", None),
     longitude          |-> Get(parsed, "longitude", None),
     operator_name      |-> Get(parsed, "operator_name", None),
     phone              |-> Get(parsed, "phone", None),
     is_24h             |-> Get(parsed, "is_24h", None),
     business_hours     |-> Get(parsed, "business_hours", None),
     total_chargers     |-> Get(parsed, "total_chargers", None),
     available_chargers |-> Get(parsed, "available_chargers", None),
     charger_types      |-> Get(parsed, "charger_types", None),
     fee_description    |-> Get(parsed, "fee_description", None),
     parking_fee        |-> Get(parsed, "parking_fee", None),
     data_updated_at    |-> Get(parsed, "data_updated_at", None),
     updated_at         |-> Dt(t)]

\* a set_ that leaves the coordinates out
ChargingSetKeepsCoordinates(parsed, t) ==
    [c \in DOMAIN ChargingValues(parsed, t) \ {"station_id", "latitude", "longitude"} |->
        ChargingValues(parsed, t)[c]]

\* on_conflict_do_update(index_elements=["station_id"], set_={...})
ChargingSet(parsed, t) ==
    [c \in DOMAIN ChargingValues(parsed, t) \ {"station_id"} |-> ChargingValues(parsed, t)[c]]

\* the column defaults of a fresh facility row: id = uuid4(), created_at = utcnow()
FacilityDefaults(id, t) == [id |-> id, created_at |-> Dt(t)]

\* insert(SyncStatus).values(...) of the success branch, and its set_
StatusSuccessValues(city, n, t) ==
    [city |-> city, last_sync_at |-> Dt(t), records_synced |-> n,
     status |-> "success", error_message |-> None]

StatusSuccessSet(n, t) ==
    [last_sync_at |-> Dt(t), records_synced |-> n, status |-> "success",
     error_message |-> None]

\* a failed ledger row that carries no message
StatusFailedValuesNoMessage(city, msg, t) ==
    [city |-> city, last_sync_at |-> Dt(t), records_synced |-> 0,
     status |-> "failed", error_message |-> None]

\* insert(SyncStatus).values(...) of the except branch, and its set_
StatusFailedValues(city, msg, t) ==
    [city |-> city, last_sync_at |-> Dt(t), records_synced |-> 0,
     status |-> "failed", error_message |-> Str(msg)]

StatusFailedSet(msg, t) ==
    [last_sync_at |-> Dt(t), status |-> "failed", error_message |-> Str(msg)]

\* the sync_status table after an upsert keyed on city
StatusUpsert(table, values, set_) ==
    IF ConflictRows(table, "city", values.city) # {}
    THEN {IF r.city = values.city THEN Overwrite(r, set_) ELSE r : r \in table}
    ELSE table \cup {values}

(***************************************************************************)
(* The upstream: responses of the TDX endpoints                            *)
(***************************************************************************)
PositionAt(lat, lon) == [t |-> "dict", PositionLat |-> Num(lat), PositionLon |-> Num(lon)]

\* raw CarPark records of the upstream
LotA ==
    [t |-> "dict", CarParkID |-> Str("A1"),
     CarParkName |-> [t |-> "dict", Zh_tw |-> Str("LotA")],
     CarParkPosition |-> PositionAt(25, 121), Address |-> Str("addr"),
     FareDescription |-> Str("fare"), TotalSpaces |-> Num(10)]

\* the same car park with every attribute changed
LotARenamed ==
    [t |-> "dict", CarParkID |-> Str("A1"), CarParkName |-> Str("LotA2"),
     CarParkPosition |-> PositionAt(26, 122),
     Address |-> [t |-> "dict", En |-> Str("addr2")],
     FareDescription |-> [t |-> "dict", Zh_tw |-> Str("fare2")], TotalSpaces |-> Num(20)]

LotB ==
    [t |-> "dict", CarParkID |-> Str("B2"), CarParkName |-> [t |-> "dict", En |-> Str("LotB")]]

\* no CarParkID key, and an empty CarParkID
LotNoId == [t |-> "dict", CarParkName |-> Str("Nameless"), TotalSpaces |-> Num(5)]

LotEmptyId == [t |-> "dict", CarParkID |-> Str(""), CarParkName |-> Str("Blank")]

\* "CarParkPosition": null
LotNullPosition ==
    [t |-> "dict", CarParkID |-> Str("C3"), CarParkName |-> Str("LotC"),
     CarParkPosition |-> None]

\* "CarParkName": null
LotNullName == [t |-> "dict", CarParkID |-> Str("C3"), CarParkName |-> None]

\* raw ParkingAvailability records of the upstream
AvailA(n, time) ==
    [t |-> "dict", CarParkID |-> Str("A1"), AvailableSpaces |-> Num(n),
     DataCollectTime |-> time]

\* what the two parking endpoints hold for a city at one moment: Taipei has
\* car parks, some with data-quality gaps; NewTaipei lists a car park under
\* an id Taipei uses too; the other cities have none
Snapshot(items, live) == [items |-> items, live |-> live]

ParkingUpstream(city) ==
    CASE city = "Taipei" ->
           {Snapshot(<<LotA>>, <<>>),
            Snapshot(<<LotA>>, <<AvailA(5, Iso(3, "+08:00"))>>),
            Snapshot(<<LotA>>, <<AvailA(3, Str("yesterday"))>>),
            Snapshot(<<LotNoId, LotB>>, <<>>),
            Snapshot(<<LotEmptyId>>, <<AvailA(5, Iso(3, "+08:00"))>>),
            Snapshot(<<LotB, LotNullPosition>>, <<>>),
            Snapshot(<<LotB, LotNullName>>, <<>>)}
      [] city = "NewTaipei" -> {Snapshot(<<LotARenamed>>, <<>>)}
      [] OTHER -> {Snapshot(<<>>, <<>>)}

\* raw EV station records of the upstream
Connector(type) == [t |-> "dict", ConnectorType |-> Str(type)]

StA ==
    [t |-> "dict", StationID |-> Str("S1"),
     StationName |-> [t |-> "dict", Zh_tw |-> Str("StA")],
     Position |-> PositionAt(25, 121), Address |-> Str("addr"),
     OperatorName |-> Str("op"), Phone |-> Str("02"),
     Is24Hours |-> [t |-> "bool", v |-> TRUE], ServiceTime |-> Str("24h"),
     Connectors |-> <<Connector("CCS1"), Connector("CCS1")>>,
     ChargingFee |-> Str("fee"), ParkingFee |-> Str("pfee")]

\* the same station with every attribute changed
StARenamed ==
    [t |-> "dict", StationID |-> Str("S1"), StationName |-> Str("StA2"),
     Position |-> PositionAt(26, 122),
     Address |-> [t |-> "dict", En |-> Str("addr2")],
     OperatorName |-> [t |-> "dict", Zh_tw |-> Str("op2")], Phone |-> Str("03"),
     Is24Hours |-> [t |-> "bool", v |-> FALSE], ServiceTime |-> Str("9-17"),
     Connectors |-> <<Connector("CHAdeMO")>>,
     ChargingFee |-> Str("fee2"), ParkingFee |-> Str("pfee2")]

StB == [t |-> "dict", StationID |-> Str("S2"), StationName |-> Str("StB")]

StNoId == [t |-> "dict", StationName |-> Str("Nameless")]

\* "Position": null
StNullPosition == [t |-> "dict", StationID |-> Str("S3"), Position |-> None]

\* "Phone": 800, a number where the column holds text
StNumericPhone == [t |-> "dict", StationID |-> Str("S3"), Phone |-> Num(800)]

StatusA ==
    [t |-> "dict", StationID |-> Str("S1"),
     Connectors |-> <<[t |-> "dict", Status |-> Str("Available")],
                      [t |-> "dict", Status |-> Str("Charging")]>>,
     UpdateTime |-> Iso(4, "Z")]

\* what the two EV endpoints hold for a city at one moment
ChargingUpstream(city) ==
    CASE city = "NewTaipei" ->
           {Snapshot(<<StA>>, <<>>),
            Snapshot(<<StA>>, <<StatusA>>),
            Snapshot(<<StNoId, StB>>, <<>>),
            Snapshot(<<StB, StNullPosition>>, <<>>),
            Snapshot(<<StB, StNumericPhone>>, <<>>)}
      [] city = "Taipei" -> {Snapshot(<<StARenamed>>, <<>>)}
      [] OTHER -> {Snapshot(<<>>, <<>>)}

\* what one GET of an endpoint can answer: a JSON body (a bare array, or an
\* object holding the array under wrapper), 404, another error status, or
\* no answer within the timeout
Responses(list, wrapper) ==
    {[status |-> 200, json |-> [t |-> "list", v |-> list]],
     [status |-> 200, json |-> Put(EmptyDict, wrapper, list)],
     [status |-> 404], [status |-> 500], [status |-> 0]}

Returned(v) == [raised |-> FALSE, value |-> v]

Raised(msg) == [raised |-> TRUE, error |-> msg]

\* _make_request: the transport error, or raise_for_status(), or response.json()
make_request(resp) ==
    IF resp.status = 0 THEN Raised("ReadTimeout")
    ELSE IF resp.status # 200 THEN Raised("HTTPStatusError")
    ELSE Returned(resp.json)

\* an except clause that raises for 404 as for every other status
OnStatusErrorReraise(resp, result) == result

\* the except clause of the four fetch methods: 404 answers []
OnStatusError(resp, result) ==
    IF result.raised /\ result.error = "HTTPStatusError" /\ resp.status = 404
    THEN Returned(<<>>)
    ELSE result

get_parking_lots(resp) ==
    LET r == make_request(resp)
    IN  IF r.raised THEN OnStatusError(resp, r)
        ELSE Returned(IF r.value.t = "list" THEN r.value.v ELSE Get(r.value, "CarParks", <<>>))

get_parking_availability(resp) ==
    LET r == make_request(resp)
    IN  IF r.raised THEN OnStatusError(resp, r)
        ELSE Returned(IF r.value.t = "list" THEN r.value.v
                      ELSE Get(r.value, "ParkingAvailabilities", <<>>))

\* a or b, of two lists
ListOr(a, b) == IF a # <<>> THEN a ELSE b

get_charging_stations_by_city(resp) ==
    LET r == make_request(resp)
    IN  IF r.raised THEN OnStatusError(resp, r)
        ELSE Returned(IF r.value.t = "list" THEN r.value.v
                      ELSE ListOr(Get(r.value, "Stations", <<>>),
                                  ListOr(Get(r.value, "EVStations", <<>>),
                                         Get(r.value, "ChargingStations", <<>>))))

get_connector_status_by_city(resp) ==
    LET r == make_request(resp)
    IN  IF r.raised THEN OnStatusError(resp, r)
        ELSE Returned(IF r.value.t = "list" THEN r.value.v
                      ELSE ListOr(Get(r.value, "ConnectorLiveStatuses", <<>>),
                                  Get(r.value, "Statuses", <<>>)))

(***************************************************************************)
(* TDXAuthService.get_access_token.  The clock is in seconds.              *)
(***************************************************************************)
\* the buffer before expiry inside which a cached token is no longer used
TokenMargin == 300

\* token_data.get("expires_in", 86400)
DefaultExpiresIn == 86400

\* the access token the auth endpoint issues at time t
Token(t) == [t |-> "str", v |-> "jwt", iat |-> t]

\* a cache that hands the token out until the instant it expires
TokenCachedNoMargin(a, t) == Truthy(a.token) /\ t < a.expires_at

\* "if self._token and time.time() < (self._token_expires_at - 300)"
TokenCached(a, t) == Truthy(a.token) /\ t < a.expires_at - TokenMargin

\* the singleton after a token response was stored at time t
StoreToken(token_data, t) ==
    [token      |-> token_data.access_token,
     expires_at |-> t + Get(token_data, "expires_in", DefaultExpiresIn)]

\* what the auth endpoint can answer at time t: a token with the default
\* lifetime, a token that names a short lifetime, or a refusal
TokenData(t) == [t |-> "dict", access_token |-> Token(t)]

AuthGrants(t) == {[status |-> 200, json |-> TokenData(t)]}

AuthAnswers(t) ==
    {[status |-> 200, json |-> TokenData(t)],
     [status |-> 200, json |-> Put(TokenData(t), "expires_in", 2 * TokenMargin)],
     [status |-> 401]}

(***************************************************************************)
(* State                                                                   *)
(***************************************************************************)
VARIABLES
    parking_lots,       \* committed rows of table parking_lots
    charging_stations,  \* committed rows of table charging_stations
    sync_status,        \* committed rows of table sync_status
    frame,              \* per session: the locals of its running handler
    now,                \* datetime.utcnow(); the clock ticks between partitions
    next_id,            \* the next fresh surrogate id
    partitions,         \* partitions handed to a sync loop so far
    auth                \* the TDXAuthService singleton: _token, _token_expires_at

vars == <<parking_lots, charging_stations, sync_status, frame, now, next_id, partitions, auth>>

NoResponse == [status |-> 0]

\* TDXAuthService.__init__: no token, expiry 0
NoToken == [token |-> None, expires_at |-> 0]

IdleFrame ==
    [pc |-> "idle", handler |-> "none", cities_to_sync |-> <<>>, i |-> 0,
     queue |-> <<>>, availability_map |-> <<>>, records_synced |-> 0,
     total_records |-> 0, synced_cities |-> <<>>, tx |-> {}, aborted |-> FALSE,
     error_msg |-> "", http |-> 0, response |-> NoResponse, log |-> <<>>]

Init ==
    /\ parking_lots = {}
    /\ charging_stations = {}
    /\ sync_status = {}
    /\ frame = [s \in Sessions |-> IdleFrame]
    /\ now = 1
    /\ next_id = 1
    /\ partitions = 0
    /\ auth = NoToken

\* the partition the loop is at
City(s) == frame[s].cities_to_sync[frame[s].i]

\* request bodies: no list (None or []), or a list of city codes
SyncRequests == {<<>>, <<"Taipei">>, <<"Taipei", "Atlantis">>}

ChargingRequests == {<<>>, <<"NewTaipei">>, <<"NewTaipei", "Atlantis">>}

\* a validation that lets every city code pass
InvalidCitiesNone(cities, supported) == <<>>

\* invalid_cities = [c for c in cities_to_sync if c not in SUPPORTED_CITIES]
InvalidCities(cities, supported) == SelectSeq(cities, LAMBDA c : c \notin supported)

\* the session's transaction ends: its writes become the committed rows
Commit(committed, delta) == View(committed, delta)

\* a unique index that lets a statement pass an uncommitted row of the same key
BlockedNever(s, key, val) == FALSE

\* another session's open transaction has written the row with this key
Blocked(s, key, val) ==
    \E o \in Sessions \ {s} : \E r \in frame[o].tx : key \in DOMAIN r /\ r[key] = val

(***************************************************************************)
(* The per-record step shared by the two sync loops                        *)
(***************************************************************************)
KeyColumn(s) == IF frame[s].handler = "parking" THEN "park_id" ELSE "station_id"

\* parse_*(item, city) raises for the record the loop is at
HeadRaises(s) ==
    IF frame[s].handler = "parking"
    THEN ParkingParseRaises(Head(frame[s].queue))
    ELSE ChargingParseRaises(Head(frame[s].queue))

\* parsed, after parse_* and merge_availability, for the record the loop is at
Parsed(s) ==
    IF frame[s].handler = "parking"
    THEN parking_merge_availability(parse_parking_lot(Head(frame[s].queue), City(s)),
                                    frame[s].availability_map)
    ELSE charging_merge_availability(parse_charging_station(Head(frame[s].queue), City(s)),
                                     frame[s].availability_map)

\* the database refuses the statement for the record the loop is at
HeadRejected(s) ==
    IF frame[s].handler = "parking"
    THEN ParkingRejects(ParkingValues(Parsed(s), now))
    ELSE ChargingRejects(ChargingValues(Parsed(s), now))

\* a loop that skips no record
SkipNothing(parsed, key) == FALSE

\* "if not parsed[key]: continue"
SkipRecord(parsed, key) == ~Truthy(parsed[key])

\* the session's next statement is a facility upsert the database accepts
AboutToUpsert(s) ==
    /\ frame[s].pc = "upsert"
    /\ frame[s].queue # <<>>
    /\ ~HeadRaises(s)
    /\ ~SkipRecord(Parsed(s), KeyColumn(s))
    /\ ~HeadRejected(s)

\* s's statement waits for the row lock o's open transaction holds
WaitsFor(s, o) ==
    /\ AboutToUpsert(s)
    /\ \E r \in frame[o].tx :
          KeyColumn(s) \in DOMAIN r /\ r[KeyColumn(s)] = Parsed(s)[KeyColumn(s)]

\* the database's deadlock detector ends the wait with an error
Deadlocked(s) == \E o \in Sessions \ {s} : WaitsFor(s, o) /\ WaitsFor(o, s)

\* the frame after an exception was raised inside the try block
Raise(f, msg, abort) ==
    [f EXCEPT !.pc = "except", !.error_msg = msg, !.aborted = abort]

\* one entry of the per-invocation log: what became of a partition, with
\* the status the facility endpoint answered and the exception's message
LogEntry(f, outcome, ledger) ==
    [city |-> f.cities_to_sync[f.i], outcome |-> outcome, ledger |-> ledger,
     upserts |-> f.records_synced, error |-> f.error_msg, http |-> f.http]

\* a loop that adds the upserts of a failed partition to the total
EndPartitionCountsFailed(f, outcome, ledger) ==
    [f EXCEPT !.pc = "loop", !.i = @ + 1, !.tx = {}, !.aborted = FALSE,
              !.queue = <<>>, !.availability_map = <<>>, !.records_synced = 0,
              !.error_msg = "", !.http = 0,
              !.total_records = IF outcome = "failed" THEN @ + f.records_synced ELSE @,
              !.log = Append(@, LogEntry(f, outcome, ledger))]

\* the frame when the loop moves on: the partition's locals are dead (each
\* is assigned again before it is read) and the transaction has ended
EndPartition(f, outcome, ledger) ==
    [f EXCEPT !.pc = "loop", !.i = @ + 1, !.tx = {}, !.aborted = FALSE,
              !.queue = <<>>, !.availability_map = <<>>, !.records_synced = 0,
              !.error_msg = "", !.http = 0,
              !.log = Append(@, LogEntry(f, outcome, ledger))]

(***************************************************************************)
(* _make_request -> get_access_token, for the first request of a partition *)
(***************************************************************************)
\* the session is about to fetch and the cached token is still good, or the
\* token it asked for has arrived
HasToken(s) ==
    \/ frame[s].pc = "fetch"
    \/ /\ frame[s].pc = "loop"
       /\ frame[s].i <= Len(frame[s].cities_to_sync)
       /\ TokenCached(auth, now)

\* no usable cached token: the POST to the auth endpoint is sent
TokenRequest(s) ==
    /\ frame[s].pc = "loop"
    /\ frame[s].i <= Len(frame[s].cities_to_sync)
    /\ ~TokenCached(auth, now)
    /\ frame' = [frame EXCEPT ![s].pc = "token"]
    /\ UNCHANGED <<parking_lots, charging_stations, sync_status, now, next_id, partitions, auth>>

\* the auth endpoint answers: raise_for_status(), then the token is stored
\* and returned; the exception goes to the except block of the sync loop
TokenResponse(s, answers) ==
    /\ frame[s].pc = "token"
    /\ \E answer \in answers :
          IF answer.status = 200
          THEN /\ auth' = StoreToken(answer.json, now)
               /\ frame' = [frame EXCEPT ![s].pc = "fetch"]
          ELSE /\ frame' = [frame EXCEPT ![s] = Raise(@, "HTTPStatusError: token", FALSE)]
               /\ UNCHANGED auth
    /\ UNCHANGED <<parking_lots, charging_stations, sync_status, now, next_id, partitions>>

(***************************************************************************)
(* trigger_sync: POST /api/sync/trigger                                    *)
(***************************************************************************)
\* verify_api_key, the choice of cities_to_sync and the validation (the
\* body of a request with a wrong key is never looked at)
TriggerSync(s, max) ==
    /\ frame[s].pc = "idle"
    /\ \E key_ok \in BOOLEAN :
       \E request \in (IF key_ok THEN SyncRequests ELSE {<<>>}) :
         LET cities  == IF request # <<>> THEN request ELSE SUPPORTED_CITIES_ORDER
             invalid == InvalidCities(cities, SUPPORTED_CITIES)
         IN  IF ~key_ok
             THEN /\ frame' = [frame EXCEPT ![s] =
                                 [IdleFrame EXCEPT !.response = [status |-> 403]]]
                  /\ UNCHANGED partitions
             ELSE IF invalid # <<>>
             THEN /\ frame' = [frame EXCEPT ![s] =
                                 [IdleFrame EXCEPT !.handler = "parking",
                                                   !.cities_to_sync = cities,
                                                   !.response = [status |-> 400]]]
                  /\ UNCHANGED partitions
             ELSE /\ partitions + Len(cities) <= max
                  /\ partitions' = partitions + Len(cities)
                  /\ frame' = [frame EXCEPT ![s] =
                                 [IdleFrame EXCEPT !.pc = "loop", !.handler = "parking",
                                                   !.cities_to_sync = cities, !.i = 1]]
    /\ UNCHANGED <<parking_lots, charging_stations, sync_status, now, next_id, auth>>

\* the two fetches of one partition and the availability lookup map; the
\* second request is not sent when the first fetch raised, and it finds the
\* token of the first request cached
SyncFetch(s) ==
    /\ HasToken(s)
    /\ frame[s].handler = "parking"
    /\ \E u \in ParkingUpstream(City(s)) :
       \E r1 \in Responses(u.items, "CarParks") :
       \E r2 \in (IF get_parking_lots(r1).raised THEN {NoResponse}
                  ELSE Responses(u.live, "ParkingAvailabilities")) :
         LET parking_lots_  == get_parking_lots(r1)
             availability   == get_parking_availability(r2)
             f              == [frame[s] EXCEPT !.records_synced = 0, !.tx = {},
                                                !.aborted = FALSE, !.error_msg = "",
                                                !.http = r1.status]
         IN  frame' = [frame EXCEPT ![s] =
                 IF parking_lots_.raised THEN Raise(f, parking_lots_.error, FALSE)
                 ELSE IF availability.raised THEN Raise(f, availability.error, FALSE)
                 ELSE [f EXCEPT !.pc = "upsert", !.queue = parking_lots_.value,
                         !.availability_map = BuildMap(availability.value, "CarParkID")]]
    /\ UNCHANGED <<parking_lots, charging_stations, sync_status, now, next_id, partitions, auth>>

\* one turn of "for lot_data in parking_lots"
SyncUpsert(s) ==
    /\ frame[s].pc = "upsert"
    /\ frame[s].handler = "parking"
    /\ frame[s].queue # <<>>
    /\ IF HeadRaises(s)
       THEN /\ frame' = [frame EXCEPT ![s] = Raise(@, "AttributeError", FALSE)]
            /\ UNCHANGED <<now, next_id>>
       ELSE IF SkipRecord(Parsed(s), "park_id")
       THEN /\ frame' = [frame EXCEPT ![s].queue = Tail(@)]
            /\ UNCHANGED <<now, next_id>>
       ELSE IF HeadRejected(s)
       THEN /\ frame' = [frame EXCEPT ![s] = Raise(@, "IntegrityError", TRUE)]
            /\ UNCHANGED <<now, next_id>>
       ELSE IF Deadlocked(s)
       THEN /\ frame' = [frame EXCEPT ![s] = Raise(@, "DeadlockDetected", TRUE)]
            /\ UNCHANGED <<now, next_id>>
       ELSE /\ ~Blocked(s, "park_id", Parsed(s).park_id)
            /\ LET row == UpsertRow(View(parking_lots, frame[s].tx), "park_id",
                                    ParkingValues(Parsed(s), now),
                                    ParkingSet(Parsed(s), now),
                                    FacilityDefaults(next_id, now))
               IN  /\ frame' = [frame EXCEPT ![s].tx = TxWrite(@, row),
                                             ![s].queue = Tail(@),
                                             ![s].records_synced = @ + 1]
                   /\ next_id' = IF row.id = next_id THEN next_id + 1 ELSE next_id
            /\ UNCHANGED now
    /\ UNCHANGED <<parking_lots, charging_stations, sync_status, partitions, auth>>

\* after the loop: the success ledger upsert and db.commit()
SyncStatusSuccess(s) ==
    /\ frame[s].pc = "upsert"
    /\ frame[s].handler = "parking"
    /\ frame[s].queue = <<>>
    /\ sync_status' = StatusUpsert(sync_status,
                          StatusSuccessValues(City(s), frame[s].records_synced, now),
                          StatusSuccessSet(frame[s].records_synced, now))
    /\ parking_lots' = Commit(parking_lots, frame[s].tx)
    /\ frame' = [frame EXCEPT ![s] =
            [EndPartition(@, "success", TRUE) EXCEPT
                      !.total_records = @ + frame[s].records_synced,
                      !.synced_cities = Append(@, City(s))]]
    /\ now' = now + 1
    /\ UNCHANGED <<charging_stations, next_id, partitions, auth>>

\* the except block: the failed ledger upsert and db.commit(); in an aborted
\* transaction the ledger statement raises, the handler ends with the
\* exception and get_db closes the session, which rolls back
SyncExcept(s) ==
    /\ frame[s].pc = "except"
    /\ frame[s].handler = "parking"
    /\ IF frame[s].aborted
       THEN /\ frame' = [frame EXCEPT ![s] =
                    [EndPartition(@, "aborted", FALSE) EXCEPT
                              !.pc = "idle", !.i = frame[s].i,
                              !.response = [status |-> 500]]]
            /\ UNCHANGED <<sync_status, parking_lots>>
       ELSE /\ sync_status' = StatusUpsert(sync_status,
                                  StatusFailedValues(City(s), frame[s].error_msg, now),
                                  StatusFailedSet(frame[s].error_msg, now))
            /\ parking_lots' = Commit(parking_lots, frame[s].tx)
            /\ frame' = [frame EXCEPT ![s] = EndPartition(@, "failed", TRUE)]
    /\ now' = now + 1
    /\ UNCHANGED <<charging_stations, next_id, partitions, auth>>

\* return SyncResultResponse(...)
SyncReturn(s) ==
    /\ frame[s].pc = "loop"
    /\ frame[s].handler = "parking"
    /\ frame[s].i > Len(frame[s].cities_to_sync)
    /\ frame' = [frame EXCEPT ![s] =
            [@ EXCEPT !.pc = "idle",
                      !.response = [status |-> 200,
                                    success |-> Len(frame[s].synced_cities) > 0,
                                    synced_cities |-> frame[s].synced_cities,
                                    total_records |-> frame[s].total_records]]]
    /\ UNCHANGED <<parking_lots, charging_stations, sync_status, now, next_id, partitions, auth>>

(***************************************************************************)
(* trigger_charging_sync: POST /api/sync/charging                          *)
(***************************************************************************)
TriggerChargingSync(s, max) ==
    /\ frame[s].pc = "idle"
    /\ \E key_ok \in BOOLEAN :
       \E request \in (IF key_ok THEN ChargingRequests ELSE {<<>>}) :
         LET cities  == IF request # <<>> THEN request ELSE CHARGING_DEFAULT_CITIES
             invalid == InvalidCities(cities, SUPPORTED_CITIES_EV)
         IN  IF ~key_ok
             THEN /\ frame' = [frame EXCEPT ![s] =
                                 [IdleFrame EXCEPT !.response = [status |-> 403]]]
                  /\ UNCHANGED partitions
             ELSE IF invalid # <<>>
             THEN /\ frame' = [frame EXCEPT ![s] =
                                 [IdleFrame EXCEPT !.handler = "charging",
                                                   !.cities_to_sync = cities,
                                                   !.response = [status |-> 400]]]
                  /\ UNCHANGED partitions
             ELSE /\ partitions + Len(cities) <= max
                  /\ partitions' = partitions + Len(cities)
                  /\ frame' = [frame EXCEPT ![s] =
                                 [IdleFrame EXCEPT !.pc = "loop", !.handler = "charging",
                                                   !.cities_to_sync = cities, !.i = 1]]
    /\ UNCHANGED <<parking_lots, charging_stations, sync_status, now, next_id, auth>>

ChargingFetch(s) ==
    /\ HasToken(s)
    /\ frame[s].handler = "charging"
    /\ \E u \in ChargingUpstream(City(s)) :
       \E r1 \in Responses(u.items, "EVStations") :
       \E r2 \in (IF get_charging_stations_by_city(r1).raised THEN {NoResponse}
                  ELSE Responses(u.live, "Statuses")) :
         LET stations    == get_charging_stations_by_city(r1)
             status_data == get_connector_status_by_city(r2)
             f           == [frame[s] EXCEPT !.records_synced = 0, !.tx = {},
                                             !.aborted = FALSE, !.error_msg = "",
                                             !.http = r1.status]
         IN  frame' = [frame EXCEPT ![s] =
                 IF stations.raised THEN Raise(f, stations.error, FALSE)
                 ELSE IF status_data.raised THEN Raise(f, status_data.error, FALSE)
                 ELSE [f EXCEPT !.pc = "upsert", !.queue = stations.value,
                         !.availability_map = BuildMap(status_data.value, "StationID")]]
    /\ UNCHANGED <<parking_lots, charging_stations, sync_status, now, next_id, partitions, auth>>

\* one turn of "for station_data in stations"
ChargingUpsert(s) ==
    /\ frame[s].pc = "upsert"
    /\ frame[s].handler = "charging"
    /\ frame[s].queue # <<>>
    /\ IF HeadRaises(s)
       THEN /\ frame' = [frame EXCEPT ![s] = Raise(@, "AttributeError", FALSE)]
            /\ UNCHANGED next_id
       ELSE IF SkipRecord(Parsed(s), "station_id")
       THEN /\ frame' = [frame EXCEPT ![s].queue = Tail(@)]
            /\ UNCHANGED next_id
       ELSE IF HeadRejected(s)
       THEN /\ frame' = [frame EXCEPT ![s] = Raise(@, "DataError", TRUE)]
            /\ UNCHANGED next_id
       ELSE IF Deadlocked(s)
       THEN /\ frame' = [frame EXCEPT ![s] = Raise(@, "DeadlockDetected", TRUE)]
            /\ UNCHANGED next_id
       ELSE /\ ~Blocked(s, "station_id", Parsed(s).station_id)
            /\ LET row == UpsertRow(View(charging_stations, frame[s].tx), "station_id",
                                    ChargingValues(Parsed(s), now),
                                    ChargingSet(Parsed(s), now),
                                    FacilityDefaults(next_id, now))
               IN  /\ frame' = [frame EXCEPT ![s].tx = TxWrite(@, row),
                                             ![s].queue = Tail(@),
                                             ![s].records_synced = @ + 1]
                   /\ next_id' = IF row.id = next_id THEN next_id + 1 ELSE next_id
    /\ UNCHANGED <<parking_lots, charging_stations, sync_status, now, partitions, auth>>

\* after the loop: db.commit()
ChargingCommit(s) ==
    /\ frame[s].pc = "upsert"
    /\ frame[s].handler = "charging"
    /\ frame[s].queue = <<>>
    /\ charging_stations' = Commit(charging_stations, frame[s].tx)
    /\ frame' = [frame EXCEPT ![s] =
            [EndPartition(@, "success", FALSE) EXCEPT
                      !.total_records = @ + frame[s].records_synced,
                      !.synced_cities = Append(@, City(s))]]
    /\ now' = now + 1
    /\ UNCHANGED <<parking_lots, sync_status, next_id, partitions, auth>>

\* the except block: print(...) and db.rollback()
ChargingExcept(s) ==
    /\ frame[s].pc = "except"
    /\ frame[s].handler = "charging"
    /\ frame' = [frame EXCEPT ![s] = EndPartition(@, "failed", FALSE)]
    /\ now' = now + 1
    /\ UNCHANGED <<parking_lots, charging_stations, sync_status, next_id, partitions, auth>>

ChargingReturn(s) ==
    /\ frame[s].pc = "loop"
    /\ frame[s].handler = "charging"
    /\ frame[s].i > Len(frame[s].cities_to_sync)
    /\ frame' = [frame EXCEPT ![s] =
            [@ EXCEPT !.pc = "idle",
                      !.response = [status |-> 200,
                                    success |-> Len(frame[s].synced_cities) > 0,
                                    synced_cities |-> frame[s].synced_cities,
                                    total_records |-> frame[s].total_records]]]
    /\ UNCHANGED <<parking_lots, charging_stations, sync_status, now, next_id, partitions, auth>>

(***************************************************************************)
(* Specifications                                                          *)
(***************************************************************************)
Step(s, max) ==
    \/ TriggerSync(s, max)
    \/ SyncFetch(s)
    \/ SyncUpsert(s)
    \/ SyncStatusSuccess(s)
    \/ SyncExcept(s)
    \/ SyncReturn(s)
    \/ TriggerChargingSync(s, max)
    \/ ChargingFetch(s)
    \/ ChargingUpsert(s)
    \/ ChargingCommit(s)
    \/ ChargingExcept(s)
    \/ ChargingReturn(s)

\* get_access_token where it has to ask the auth endpoint
TokenStep(s, answers) ==
    \/ TokenRequest(s)
    \/ TokenResponse(s, answers)

\* one client: its sync invocations follow one another
Next == Step(1, MaxPartitions) \/ TokenStep(1, AuthGrants(now))

Spec == Init /\ [][Next]_vars

\* the process has synced before: a token issued at time 0 is cached
InitWarm ==
    /\ parking_lots = {}
    /\ charging_stations = {}
    /\ sync_status = {}
    /\ frame = [s \in Sessions |-> IdleFrame]
    /\ now = 1
    /\ next_id = 1
    /\ partitions = 0
    /\ auth = StoreToken(TokenData(0), 0)

\* two clients: the statements of their invocations interleave
NextConcurrent == \E s \in Sessions : Step(s, MaxConcurrentPartitions)

SpecConcurrent == InitWarm /\ [][NextConcurrent]_vars

(***************************************************************************)
(* Observing the per-record step                                           *)
(***************************************************************************)
\* the facility table the session's handler writes
Table(s) == IF frame[s].handler = "parking" THEN parking_lots ELSE charging_stations

\* the values of the statement for the record the loop is at
Incoming(s) ==
    IF frame[s].handler = "parking"
    THEN ParkingValues(Parsed(s), now)
    ELSE ChargingValues(Parsed(s), now)

\* the rows the session sees for the external id of the record the loop is at
RowsBefore(s) ==
    ConflictRows(View(Table(s), frame[s].tx), KeyColumn(s), Incoming(s)[KeyColumn(s)])

\* the same after the step
RowsAfter(s) ==
    ConflictRows(View(Table(s), frame'[s].tx), KeyColumn(s), Incoming(s)[KeyColumn(s)])

\* the step executes the facility upsert for the record the loop is at
UpsertStep(s) ==
    /\ AboutToUpsert(s)
    /\ frame'[s].records_synced = frame[s].records_synced + 1

\* the row already holds the incoming record: all its columns but updated_at
SameRecord(row, values) ==
    \A c \in DOMAIN values \ {"updated_at"} : row[c] = values[c]

(***************************************************************************)
(* Properties                                                              *)
(***************************************************************************)
\* C1: after any sequence of parking or charging sync invocations, two
\* concurrent ones with interleaved upsert statements included, each facility
\* table holds at most one row per external id (park_id / station_id), and
\* so does what every session sees of it through its open transaction.
C1_OneRowPerExternalId ==
    /\ \A a, b \in parking_lots : a.park_id = b.park_id => a = b
    /\ \A a, b \in charging_stations : a.station_id = b.station_id => a = b
    /\ \A s \in Sessions :
          frame[s].handler # "none" =>
             \A a, b \in View(Table(s), frame[s].tx) :
                a[KeyColumn(s)] = b[KeyColumn(s)] => a = b

\* two invocations interleave on one external id: a session's statement for
\* the id waits behind the other session's uncommitted row of that id
C1_Witness ==
    \E s \in Sessions : \E o \in Sessions \ {s} :
       /\ AboutToUpsert(o)
       /\ \E r \in frame[s].tx :
             KeyColumn(o) \in DOMAIN r /\ r[KeyColumn(o)] = Parsed(o)[KeyColumn(o)]

\* C2: upserting the same unchanged canonical record a second time for one
\* external id leaves exactly one row for the id, created_at as the first
\* upsert set it, and updated_at at the time of the second upsert, which is
\* not before the first.
C2_IdempotentUpsert ==
    [][\A s \in Sessions :
          (UpsertStep(s) /\ \E r \in RowsBefore(s) : SameRecord(r, Incoming(s))) =>
             \E r \in RowsBefore(s) :
                /\ RowsAfter(s) = {[r EXCEPT !.updated_at = Dt(now)]}
                /\ r.created_at.v <= r.updated_at.v
                /\ r.updated_at.v <= now]_vars

\* a second sync has upserted an unchanged record over the row a first,
\* committed sync created
C2_Witness ==
    \E s \in Sessions : \E r \in frame[s].tx : \E c \in parking_lots :
       /\ r.id = c.id
       /\ r.created_at = c.created_at
       /\ r.updated_at.v > c.updated_at.v
       /\ [r EXCEPT !.updated_at = c.updated_at] = c

\* C3: when two successive syncs upsert one external id with different
\* available counts (5 then 3), the stored count is the later one and there
\* is one row for the id.
C3_LaterCountWins ==
    [][\A s \in Sessions :
          (/\ UpsertStep(s)
           /\ frame[s].handler = "parking"
           /\ \E r \in RowsBefore(s) : r.available_spaces # Incoming(s).available_spaces) =>
             /\ Cardinality(RowsAfter(s)) = 1
             /\ \A r \in RowsAfter(s) : r.available_spaces = Incoming(s).available_spaces]_vars

\* a first sync stored 5 for the id and a second has upserted 3
C3_Witness ==
    \E s \in Sessions : \E r \in frame[s].tx : \E c \in parking_lots :
       /\ r.id = c.id
       /\ c.available_spaces = Num(5)
       /\ r.available_spaces = Num(3)
       /\ Cardinality(ConflictRows(View(parking_lots, frame[s].tx), "park_id", r.park_id)) = 1

\* C4: when an upsert conflicts with an existing row, every column of the
\* stored row other than the external id, the surrogate id and created_at
\* holds the incoming record's value afterwards, city and parking_type of a
\* car park included; id and created_at stay as they were.
C4_FullReplaceOnConflict ==
    [][\A s \in Sessions :
          (UpsertStep(s) /\ RowsBefore(s) # {}) =>
             \E r \in RowsBefore(s) :
                RowsAfter(s) = {[c \in DOMAIN r |-> IF c \in DOMAIN Incoming(s)
                                                    THEN Incoming(s)[c] ELSE r[c]]}]_vars

\* the external id of the raw record the loop is at, as the upstream sent it
RawId(s) ==
    Get(Head(frame[s].queue),
        IF frame[s].handler = "parking" THEN "CarParkID" ELSE "StationID", None)

\* the loop is at a raw record whose external id is missing or empty
AtRecordWithoutId(s) ==
    /\ frame[s].pc = "upsert"
    /\ frame[s].queue # <<>>
    /\ RawId(s) \in {None, Str("")}

\* C5: for a raw record whose external id is empty or missing (and that
\* parses), the loop's step persists nothing (no row written, all rows as they
\* were), does not count the record, and raises nothing: it moves on to the
\* next record of the partition.  No facility row ever has an empty id.
C5_RecordWithoutIdSkipped ==
    [][/\ \A s \in Sessions :
             (AtRecordWithoutId(s) /\ ~HeadRaises(s) /\ frame'[s] # frame[s]) =>
                /\ frame'[s] = [frame[s] EXCEPT !.queue = Tail(@)]
                /\ parking_lots' = parking_lots
                /\ charging_stations' = charging_stations
                /\ sync_status' = sync_status
       /\ \A r \in parking_lots' : Truthy(r.park_id)
       /\ \A r \in charging_stations' : Truthy(r.station_id)
       /\ \A s \in Sessions : \A r \in frame'[s].tx : Truthy(r[KeyColumn(s)'])]_vars

\* a partition whose list began with a record without id ended as success
\* with the one other record stored and counted
C5_Witness ==
    \E s \in Sessions : \E k \in DOMAIN frame[s].log :
       /\ frame[s].handler = "parking"
       /\ frame[s].log[k].outcome = "success"
       /\ frame[s].log[k].upserts = 1
       /\ \E r \in parking_lots : r.park_id = Str("B2") /\ r.updated_at = Dt(now - 1)
       /\ \A r \in parking_lots : r.name # Str("Nameless")
       /\ \E r \in sync_status :
             /\ r.city = frame[s].log[k].city
             /\ r.status = "success"
             /\ r.records_synced = 1
             /\ r.last_sync_at = Dt(now - 1)

\* what str(e) holds when a fetch raised
FetchErrors == {"HTTPStatusError", "ReadTimeout", "HTTPStatusError: token"}

\* a parking sync invocation has returned its summary
Returned200(s) ==
    /\ frame[s].pc = "idle"
    /\ frame[s].handler = "parking"
    /\ frame[s].response.status = 200

\* the ledger row of a city
LedgerRows(city) == {r \in sync_status : r.city = city}

\* C6: when a parking sync invocation over several partitions returns, the
\* loop has processed every requested partition in order; each partition
\* whose fetch threw has a ledger row with status failed and the exception's
\* message; each partition in which nothing was raised has a ledger row with
\* status success; the response lists exactly the successful partitions.
C6_FetchFailureIsolated ==
    \A s \in Sessions :
       Returned200(s) =>
          LET f == frame[s]
          IN  /\ Len(f.log) = Len(f.cities_to_sync)
              /\ \A k \in DOMAIN f.log :
                    /\ f.log[k].city = f.cities_to_sync[k]
                    /\ f.log[k].error \in FetchErrors =>
                          /\ f.log[k].outcome = "failed"
                          /\ LedgerRows(f.log[k].city) # {}
                          /\ \A r \in LedgerRows(f.log[k].city) :
                                r.status = "failed" /\ r.error_message = Str(f.log[k].error)
                    /\ f.log[k].error = "" =>
                          /\ f.log[k].outcome = "success"
                          /\ LedgerRows(f.log[k].city) # {}
                          /\ \A r \in LedgerRows(f.log[k].city) :
                                r.status = "success" /\ r.error_message = None
              /\ f.response.synced_cities =
                    SelectSeq(f.cities_to_sync,
                              LAMBDA c : \E k \in DOMAIN f.log :
                                            f.log[k].city = c /\ f.log[k].outcome = "success")

\* the fetch threw on partition 2 of 3: 1 and 3 are success, 2 is failed,
\* and the response lists the two
C6_Witness ==
    \E s \in Sessions :
       /\ Returned200(s)
       /\ Len(frame[s].log) = 3
       /\ frame[s].log[1].outcome = "success"
       /\ frame[s].log[2].outcome = "failed"
       /\ frame[s].log[2].error \in FetchErrors
       /\ frame[s].log[3].outcome = "success"
       /\ frame[s].response.synced_cities = <<"Taipei", "Keelung">>
       /\ \E r \in sync_status : r.city = "NewTaipei" /\ r.status = "failed"

\* C7: every sync invocation, parking and charging alike, performs one ledger
\* upsert for each partition it processes, on success and on failure: each
\* processed partition has a ledger row.
C7_LedgerUpsertPerPartition ==
    \A s \in Sessions : \A k \in DOMAIN frame[s].log :
       /\ frame[s].log[k].ledger
       /\ LedgerRows(frame[s].log[k].city) # {}

\* the step ends a partition with a ledger write
LedgerStep(s) ==
    /\ Len(frame'[s].log) = Len(frame[s].log) + 1
    /\ frame'[s].log[Len(frame'[s].log)].ledger

\* C8: each ledger write for a partition overwrites status, last sync
\* timestamp, records-synced count and error message with the values of the
\* current run: the count of a successful run, 0 and the message of a failed
\* one.
C8_LedgerRowOfThisRun ==
    [][\A s \in Sessions :
          LedgerStep(s) =>
             LET e == frame'[s].log[Len(frame'[s].log)]
             IN  \E r \in sync_status' :
                    /\ r.city = e.city
                    /\ r.status = e.outcome
                    /\ r.last_sync_at = Dt(now)
                    /\ r.records_synced = (IF e.outcome = "success" THEN e.upserts ELSE 0)
                    /\ r.error_message = (IF e.outcome = "success" THEN None
                                          ELSE Str(e.error))]_vars

\* C9: when a partition raises after some of its facility upserts were
\* executed, the rows those upserts wrote are in the table once the except
\* block is done, in the parking sync and in the charging sync.
C9_PartialRowsPersist ==
    [][\A s \in Sessions :
          (frame[s].pc = "except" /\ frame'[s].pc # "except") =>
             \A r \in frame[s].tx : r \in Table(s)']_vars

\* C10: a 404 for a partition's facility fetch is an empty sequence, not an
\* exception; the partition then inserts and changes no facility row and
\* (the availability fetch raising nothing) its ledger row is written as
\* success, 0 records, no message.  Any other status that is not a success,
\* and no answer at all, raise and fail the partition.
C10_NotFoundIsEmpty ==
    [][/\ get_parking_lots([status |-> 404]) = Returned(<<>>)
       /\ get_charging_stations_by_city([status |-> 404]) = Returned(<<>>)
       /\ get_parking_lots([status |-> 500]).raised
       /\ get_charging_stations_by_city([status |-> 500]).raised
       /\ \A s \in Sessions :
             (/\ frame[s].handler = "parking"
              /\ frame[s].pc \in {"upsert", "except"}
              /\ frame[s].http # 200
              /\ frame'[s] # frame[s]) =>
                IF frame[s].http # 404
                THEN /\ frame[s].pc = "except"
                     /\ frame[s].error_msg \in FetchErrors
                     /\ \E r \in sync_status' : r.city = City(s) /\ r.status = "failed"
                ELSE /\ frame[s].tx = {}
                     /\ parking_lots' = parking_lots
                     /\ frame[s].error_msg = "" =>
                           /\ frame[s].pc = "upsert"
                           /\ frame[s].queue = <<>>
                           /\ \E r \in sync_status' :
                                 /\ r.city = City(s)
                                 /\ r.status = "success"
                                 /\ r.records_synced = 0
                                 /\ r.error_message = None
                                 /\ r.last_sync_at = Dt(now)]_vars

\* a parking partition whose facility fetch was answered 404 ended as
\* success with no record, over a city that has car parks stored
C10_Witness ==
    \E s \in Sessions : \E k \in DOMAIN frame[s].log :
       /\ frame[s].handler = "parking"
       /\ frame[s].log[k].http = 404
       /\ frame[s].log[k].outcome = "success"
       /\ frame[s].log[k].upserts = 0
       /\ \E r \in parking_lots : r.city = Str(frame[s].log[k].city)
       /\ \E r \in sync_status :
             /\ r.city = frame[s].log[k].city
             /\ r.status = "success"
             /\ r.records_synced = 0
             /\ r.last_sync_at = Dt(now - 1)

(***************************************************************************)
(* The token cache over time                                               *)
(***************************************************************************)
\* partitions one client may ask for while the auth endpoint may refuse
MaxAuthPartitions == 2

\* how many times the clock may jump between two requests
MaxTicks == 2

\* the jump: half the safety margin, so that a token of twice the margin
\* is met before, at and after the instant it stops being handed out
TickLength == TokenMargin \div 2

\* time.time() moves on while no request is being served
Tick ==
    /\ \A s \in Sessions : frame[s].pc \in {"idle", "loop"}
    /\ now < MaxTicks * TickLength
    /\ now' = now + TickLength
    /\ UNCHANGED <<parking_lots, charging_stations, sync_status, frame, next_id,
                   partitions, auth>>

NextAuth == Step(1, MaxAuthPartitions) \/ TokenStep(1, AuthAnswers(now)) \/ Tick

SpecAuth == Init /\ [][NextAuth]_vars

NextAuthConcurrent ==
    \E s \in Sessions : Step(s, MaxConcurrentPartitions) \/ TokenStep(s, AuthGrants(now))

SpecAuthConcurrent == Init /\ [][NextAuthConcurrent]_vars

\* the partition keys the session's handler accepts
Supported(s) ==
    IF frame[s].handler = "parking" THEN SUPPORTED_CITIES ELSE SUPPORTED_CITIES_EV

\* the request the session's handler received names an unsupported key
NamesUnsupportedKey(s) ==
    \E k \in DOMAIN frame[s].cities_to_sync : frame[s].cities_to_sync[k] \notin Supported(s)

\* C11: a request whose partition list holds an unsupported key is refused
\* with 400 before any token request or fetch: the step that takes it leaves
\* the handler idle (nothing in flight, no partition processed) and every
\* facility row, every ledger row and the token cache as they were, valid
\* keys of the same request included; no sync loop ever runs over such a
\* list.
C11_InvalidKeyRefusesRequest ==
    [][\A s \in Sessions :
          /\ (frame[s].pc # "idle" => ~NamesUnsupportedKey(s))
          /\ (frame[s].pc = "idle" /\ frame'[s] # frame[s] /\ NamesUnsupportedKey(s)') =>
                /\ frame'[s].pc = "idle"
                /\ frame'[s].response.status = 400
                /\ frame'[s].log = <<>>
                /\ frame'[s].tx = {}
                /\ UNCHANGED <<parking_lots, charging_stations, sync_status, auth,
                               now, next_id>>]_vars

\* a request naming Taipei and an unsupported key was refused while car
\* parks and a ledger row of Taipei are stored
C11_Witness ==
    \E s \in Sessions :
       /\ frame[s].pc = "idle"
       /\ frame[s].response.status = 400
       /\ frame[s].cities_to_sync = <<"Taipei", "Atlantis">>
       /\ \E r \in parking_lots : r.city = Str("Taipei")
       /\ \E r \in sync_status : r.city = "Taipei"
       /\ \A r \in sync_status : r.city # "Atlantis"

\* the partition recorded in this log entry ended because the token request
\* was refused
TokenFailure(entry) == entry.error = "HTTPStatusError: token"

\* C12: once the token request fails for one partition of an invocation,
\* every partition attempted afterwards in that invocation fails as well.
C12_TokenFailureFailsRest ==
    \A s \in Sessions :
       \A j \in DOMAIN frame[s].log : \A k \in DOMAIN frame[s].log :
          (j < k /\ TokenFailure(frame[s].log[j])) => frame[s].log[k].outcome = "failed"

\* C13: while no valid token is cached, at most one token request to the
\* auth endpoint is in flight at any time.
C13_SingleFlight ==
    Cardinality({s \in Sessions : frame[s].pc = "token"}) <= 1

\* the handler is at a partition and is about to call get_access_token
NeedsToken(s) ==
    frame[s].pc = "loop" /\ frame[s].i <= Len(frame[s].cities_to_sync)

\* C14: get_access_token hands out the cached token without a request only
\* while a token is cached and the clock is more than 300 seconds before its
\* expiry; in every other case the call sends a token request.
C14_CacheOnlyInsideMargin ==
    [][\A s \in Sessions :
          (NeedsToken(s) /\ frame'[s] # frame[s]) =>
             IF auth.token # None /\ auth.expires_at - now > 300
             THEN frame'[s].pc # "token" /\ auth' = auth
             ELSE frame'[s].pc = "token"]_vars

\* a partition is being processed with a token of twice the margin that was
\* issued before the partition began: its fetch was served from the cache
C14_Witness ==
    \E s \in Sessions :
       /\ frame[s].pc = "upsert"
       /\ auth.token # None
       /\ auth.token.iat < now
       /\ auth.expires_at = auth.token.iat + 2 * TokenMargin

(***************************************************************************)
(* get_nearby_parking and get_nearby_charging.  Coordinates are integers   *)
(* in micro-degrees, distances integers in centimetres.                    *)
(***************************************************************************)
\* radius: int = Query(1000, ge=100, le=10000); limit: int = Query(20, ge=1, le=100)
MinRadius == 100

DefaultRadius == 1000

MaxRadius == 10000

DefaultLimit == 20

\* how many facilities a table holds when it is queried
MaxFacilities == 3

Radii == {MinRadius, DefaultRadius, MaxRadius}

Limits == {1, 2, DefaultLimit}

\* query points: Taipei (25.0330, 121.5654), the equator at the same
\* longitude, and the same latitude just west of the 180th meridian
Taipei == [lat |-> 25033000, lng |-> 121565400]

Equator == [lat |-> 0, lng |-> 121565400]

DateLine == [lat |-> 25033000, lng |-> 179999900]

\* the latitude of Taipei on the prime meridian
PrimeMeridian == [lat |-> 25033000, lng |-> 0]

QueryPoints == {Taipei, Equator, DateLine, PrimeMeridian}

\* stored coordinates: a query point itself, 50 m and 5 km north of Taipei,
\* a point inside the corner of the 1000 m box around Taipei, a point just
\* east of the 180th meridian, and coordinates that are partly or wholly null
NearbySites ==
    <<[lat |-> Num(25033000), lng |-> Num(121565400)],
      [lat |-> Num(25033450), lng |-> Num(121565400)],
      [lat |-> Num(25033450), lng |-> Num(121565400)],
      [lat |-> Num(25078000), lng |-> Num(121565400)],
      [lat |-> Num(25041500), lng |-> Num(121574900)],
      [lat |-> Num(0),        lng |-> Num(121565400)],
      [lat |-> Num(25033000), lng |-> Num(-179999900)],
      [lat |-> None,          lng |-> Num(121565400)],
      [lat |-> Num(25033000), lng |-> None],
      [lat |-> None,          lng |-> None],
      [lat |-> Num(25033000), lng |-> Num(0)]>>

\* the raw records the sync handlers stored for the site
LotAt(k) ==
    [t |-> "dict", CarParkID |-> Str(<<"P", k>>), CarParkName |-> Str("Lot"),
     CarParkPosition |-> [t |-> "dict", PositionLat |-> NearbySites[k].lat,
                                        PositionLon |-> NearbySites[k].lng]]

StationAt(k) ==
    [t |-> "dict", StationID |-> Str(<<"S", k>>), StationName |-> Str("Station"),
     Position |-> [t |-> "dict", PositionLat |-> NearbySites[k].lat,
                                 PositionLon |-> NearbySites[k].lng]]

\* the row trigger_sync inserted for the site
ParkingRowAt(k) ==
    UpsertRow({}, "park_id", ParkingValues(parse_parking_lot(LotAt(k), "Taipei"), 0),
              ParkingSet(parse_parking_lot(LotAt(k), "Taipei"), 0), FacilityDefaults(k, 0))

\* the row trigger_charging_sync inserted for the site
ChargingRowAt(k) ==
    UpsertRow({}, "station_id",
              ChargingValues(parse_charging_station(StationAt(k), "Taipei"), 0),
              ChargingSet(parse_charging_station(StationAt(k), "Taipei"), 0),
              FacilityDefaults(k, 0))

SiteSets == {S \in SUBSET DOMAIN NearbySites : Cardinality(S) <= MaxFacilities}

\* math.cos(math.radians(lat)), in units of 1/10000, at the query latitudes
CosE4(lat) ==
    CASE lat = 25033000 -> 9061
      [] lat = 0        -> 10000

\* lat_range = radius / 111000
lat_range(radius) == (radius * 1000) \div 111

\* lng_range = radius / (111000 * math.cos(math.radians(lat)))
lng_range(lat, radius) == (lat_range(radius) * 10000) \div CosE4(lat)

\* haversine_distance(lat1, lon1, lat2, lon2) with R = 6371000: the values
\* the function returns at the coordinates above, rounded to the centimetre
haversine_distance(lat1, lon1, lat2, lon2) ==
    CASE <<lat1, lon1, lat2, lon2>> = <<25033000, 121565400, 25033000, 121565400>> -> 0
      [] <<lat1, lon1, lat2, lon2>> = <<25033000, 121565400, 25033450, 121565400>> -> 5004
      [] <<lat1, lon1, lat2, lon2>> = <<25033000, 121565400, 25078000, 121565400>> -> 500377
      [] <<lat1, lon1, lat2, lon2>> = <<25033000, 121565400, 25041500, 121574900>> -> 134512
      [] <<lat1, lon1, lat2, lon2>> = <<25033000, 121565400, 0, 121565400>> -> 278354260
      [] <<lat1, lon1, lat2, lon2>> = <<25033000, 121565400, 25033000, -179999900>> -> 583749180
      [] <<lat1, lon1, lat2, lon2>> = <<0, 121565400, 25033000, 121565400>> -> 278354260
      [] <<lat1, lon1, lat2, lon2>> = <<0, 121565400, 25033450, 121565400>> -> 278359264
      [] <<lat1, lon1, lat2, lon2>> = <<0, 121565400, 25078000, 121565400>> -> 278854637
      [] <<lat1, lon1, lat2, lon2>> = <<0, 121565400, 25041500, 121574900>> -> 278448794
      [] <<lat1, lon1, lat2, lon2>> = <<0, 121565400, 0, 121565400>> -> 0
      [] <<lat1, lon1, lat2, lon2>> = <<0, 121565400, 25033000, -179999900>> -> 685921305
      [] <<lat1, lon1, lat2, lon2>> = <<25033000, 179999900, 25033000, 121565400>> -> 583747220
      [] <<lat1, lon1, lat2, lon2>> = <<25033000, 179999900, 25033450, 121565400>> -> 583746067
      [] <<lat1, lon1, lat2, lon2>> = <<25033000, 179999900, 25078000, 121565400>> -> 583632130
      [] <<lat1, lon1, lat2, lon2>> = <<25033000, 179999900, 25041500, 121574900>> -> 583632322
      [] <<lat1, lon1, lat2, lon2>> = <<25033000, 179999900, 0, 121565400>> -> 685919355
      [] <<lat1, lon1, lat2, lon2>> = <<25033000, 179999900, 25033000, -179999900>> -> 2015
      [] <<lat1, lon1, lat2, lon2>> = <<25033000, 121565400, 25033000, 0>> -> 1162195943
      [] <<lat1, lon1, lat2, lon2>> = <<0, 121565400, 25033000, 0>> -> 1315588350
      [] <<lat1, lon1, lat2, lon2>> = <<25033000, 179999900, 25033000, 0>> -> 1444800160
      [] <<lat1, lon1, lat2, lon2>> = <<25033000, 0, 25033000, 121565400>> -> 1162195943
      [] <<lat1, lon1, lat2, lon2>> = <<25033000, 0, 25033450, 121565400>> -> 1162192924
      [] <<lat1, lon1, lat2, lon2>> = <<25033000, 0, 25078000, 121565400>> -> 1161894006
      [] <<lat1, lon1, lat2, lon2>> = <<25033000, 0, 25041500, 121574900>> -> 1162215233
      [] <<lat1, lon1, lat2, lon2>> = <<25033000, 0, 0, 121565400>> -> 1315588350
      [] <<lat1, lon1, lat2, lon2>> = <<25033000, 0, 25033000, -179999900>> -> 1444800160
      [] <<lat1, lon1, lat2, lon2>> = <<25033000, 0, 25033000, 0>> -> 0

\* x BETWEEN lo AND hi
Between(x, lo, hi) == lo <= x /\ x <= hi

\* the WHERE clause of the candidate query
InBox(r, lat, lng, radius) ==
    /\ r.latitude # None
    /\ r.longitude # None
    /\ Between(r.latitude.v, lat - lat_range(radius), lat + lat_range(radius))
    /\ Between(r.longitude.v, lng - lng_range(lat, radius), lng + lng_range(lat, radius))

\* a filter that lets every candidate pass
WithinRadiusAlways(distance, radius) == TRUE

\* "if distance <= radius", radius in metres
WithinRadius(distance, radius) == distance <= radius * 100

\* a test that takes every coordinate but NULL
HasCoordinatesNotNone(r) == r.latitude # None /\ r.longitude # None

\* "if parking.latitude and parking.longitude"
HasCoordinates(r) == Truthy(r.latitude) /\ Truthy(r.longitude)

RECURSIVE Loop(_, _, _, _)
\* the loop over the candidates that builds nearby_items
Loop(candidates, lat, lng, radius) ==
    IF candidates = <<>> THEN <<>>
    ELSE LET r    == Head(candidates)
             rest == Loop(Tail(candidates), lat, lng, radius)
         IN  IF /\ HasCoordinates(r)
                /\ WithinRadius(haversine_distance(lat, lng, r.latitude.v, r.longitude.v),
                                radius)
             THEN <<[row      |-> r,
                     distance |-> haversine_distance(lat, lng, r.latitude.v,
                                                     r.longitude.v)]>> \o rest
             ELSE rest

\* a handler that keeps every stored row
nearby_items_unfiltered(scan, lat, lng, radius) ==
    [k \in DOMAIN scan |-> [row |-> scan[k], distance |-> 0]]

\* nearby_items before the sort: the candidate query over the rows in the
\* order the database scans them, then the loop
nearby_items(scan, lat, lng, radius) ==
    Loop(SelectSeq(scan, LAMBDA r : InBox(r, lat, lng, radius)), lat, lng, radius)

RECURSIVE Insert(_, _)
\* item put behind every item that is not farther (list.sort is stable)
Insert(sorted, item) ==
    IF sorted = <<>> THEN <<item>>
    ELSE IF item.distance < Head(sorted).distance THEN <<item>> \o sorted
    ELSE <<Head(sorted)>> \o Insert(Tail(sorted), item)

\* a sort that leaves the list as it is
Unsorted(items) == items

RECURSIVE SortByDistance(_)
\* nearby_items.sort(key=lambda x: x[1])
SortByDistance(items) ==
    IF items = <<>> THEN <<>>
    ELSE Insert(SortByDistance(SubSeq(items, 1, Len(items) - 1)), items[Len(items)])

\* nearby_items[:limit]
Slice(items, limit) == SubSeq(items, 1, IF limit < Len(items) THEN limit ELSE Len(items))

\* the orders in which the database may return the rows of a table
ScanOrders(table) ==
    {scan \in [1..Cardinality(table) -> table] :
        \A j \in DOMAIN scan : \A k \in DOMAIN scan : j # k => scan[j] # scan[k]}

\* Nearby*ListResponse; distance_meters = round(distance, 2).  limit is kept
\* beside the response, which does not repeat it
NearbyResponse(items, lat, lng, radius, limit) ==
    [status |-> 200,
     items  |-> [k \in DOMAIN items |->
                    [row |-> items[k].row, distance_meters |-> items[k].distance]],
     center_lat |-> lat, center_lng |-> lng, radius |-> radius, limit |-> limit]

\* what the handler answers: the loop over the query's rows, the sort, the
\* slice, the response
Nearby(scan, q, radius, limit) ==
    NearbyResponse(Slice(SortByDistance(nearby_items(scan, q.lat, q.lng, radius)), limit),
                   q.lat, q.lng, radius, limit)

\* GET /api/parking/nearby.  The handler only reads: a second query would
\* see the same rows, so a behaviour has one
get_nearby_parking(s) ==
    /\ frame[s].pc = "idle"
    /\ frame[s].handler = "none"
    /\ \E q \in QueryPoints : \E radius \in Radii : \E limit \in Limits :
       \E scan \in ScanOrders(parking_lots) :
          frame' = [frame EXCEPT ![s] =
                      [IdleFrame EXCEPT !.handler = "nearby_parking",
                                        !.response = Nearby(scan, q, radius, limit)]]
    /\ UNCHANGED <<parking_lots, charging_stations, sync_status, now, next_id,
                   partitions, auth>>

\* GET /api/charging/nearby
get_nearby_charging(s) ==
    /\ frame[s].pc = "idle"
    /\ frame[s].handler = "none"
    /\ \E q \in QueryPoints : \E radius \in Radii : \E limit \in Limits :
       \E scan \in ScanOrders(charging_stations) :
          frame' = [frame EXCEPT ![s] =
                      [IdleFrame EXCEPT !.handler = "nearby_charging",
                                        !.response = Nearby(scan, q, radius, limit)]]
    /\ UNCHANGED <<parking_lots, charging_stations, sync_status, now, next_id,
                   partitions, auth>>

\* the tables as earlier syncs left them
InitNearby ==
    /\ \E sites \in SiteSets :
          /\ parking_lots = {ParkingRowAt(k) : k \in sites}
          /\ charging_stations = {ChargingRowAt(k) : k \in sites}
    /\ sync_status = {}
    /\ frame = [s \in Sessions |-> IdleFrame]
    /\ now = 1
    /\ next_id = Len(NearbySites) + 1
    /\ partitions = 0
    /\ auth = NoToken

NextNearby == get_nearby_parking(1) \/ get_nearby_charging(1)

SpecNearby == InitNearby /\ [][NextNearby]_vars

\* the table a nearby response was computed from
NearbyTable(s) ==
    IF frame[s].handler = "nearby_parking" THEN parking_lots ELSE charging_stations

\* session s holds the response of a nearby query
Answered(s) == frame[s].handler \in {"nearby_parking", "nearby_charging"}

\* the rows of a nearby response
ReturnedRows(s) == {frame[s].response.items[k].row : k \in DOMAIN frame[s].response.items}

\* the great-circle distance of a stored row from the centre of the response
DistanceFrom(s, r) ==
    haversine_distance(frame[s].response.center_lat, frame[s].response.center_lng,
                       r.latitude.v, r.longitude.v)

\* the row passed the handler's filter: a candidate of the query with truthy
\* coordinates no farther than the radius
Qualifies(s, r) ==
    /\ InBox(r, frame[s].response.center_lat, frame[s].response.center_lng,
             frame[s].response.radius)
    /\ Truthy(r.latitude)
    /\ Truthy(r.longitude)
    /\ DistanceFrom(s, r) <= frame[s].response.radius * 100

\* C15: for every query and every stored facility set the nearby result is
\* ordered by non-decreasing distance, has at most limit items, names no
\* facility twice, and holds the limit closest qualifying facilities: a
\* qualifying facility is left out only when the result is full, and then it
\* is no closer than any returned one.
C15_ClosestFirstUpToLimit ==
    \A s \in Sessions :
       Answered(s) =>
          LET items == frame[s].response.items
          IN  /\ \A j \in DOMAIN items : \A k \in DOMAIN items :
                    j < k => /\ items[j].distance_meters <= items[k].distance_meters
                             /\ items[j].row # items[k].row
              /\ Len(items) <= frame[s].response.limit
              /\ \A k \in DOMAIN items :
                    /\ items[k].row \in NearbyTable(s)
                    /\ Qualifies(s, items[k].row)
                    /\ items[k].distance_meters = DistanceFrom(s, items[k].row)
              /\ \A r \in NearbyTable(s) \ ReturnedRows(s) :
                    Qualifies(s, r) =>
                       /\ Len(items) = frame[s].response.limit
                       /\ \A k \in DOMAIN items :
                             items[k].distance_meters <= DistanceFrom(s, r)

\* with limit 2 the facility at the query point and one 50 m away were
\* returned in that order, and a qualifying facility farther away was cut
C15_Witness ==
    \E s \in Sessions :
       /\ Answered(s)
       /\ frame[s].response.limit = 2
       /\ Len(frame[s].response.items) = 2
       /\ frame[s].response.items[1].distance_meters = 0
       /\ frame[s].response.items[2].distance_meters = 5004
       /\ \E r \in NearbyTable(s) \ ReturnedRows(s) :
             Qualifies(s, r) /\ DistanceFrom(s, r) > 5004

\* C16: no facility whose great-circle distance from the query point exceeds
\* the radius appears in the nearby result.
C16_NothingBeyondRadius ==
    \A s \in Sessions :
       Answered(s) =>
          \A r \in ReturnedRows(s) : DistanceFrom(s, r) <= frame[s].response.radius * 100

\* facilities 50 m and 5000 m from the query point are stored, the radius is
\* 1000 and only the one at 50 m was returned
C16_Witness ==
    \E s \in Sessions :
       /\ Answered(s)
       /\ frame[s].response.radius = 1000
       /\ frame[s].response.limit > 1
       /\ \E near \in NearbyTable(s) : \E far \in NearbyTable(s) :
             /\ near.latitude # None /\ near.longitude # None
             /\ far.latitude # None /\ far.longitude # None
             /\ DistanceFrom(s, near) = 5004
             /\ DistanceFrom(s, far) = 500377
             /\ ReturnedRows(s) = {near}

\* C17: the bounding box has no false negative: every stored facility with
\* non-null coordinates whose great-circle distance from the query point is
\* at most the radius is a candidate of the query, facilities on the other
\* side of the 180th meridian included.
C17_BoxHasNoFalseNegative ==
    \A s \in Sessions :
       Answered(s) =>
          \A r \in NearbyTable(s) :
             (/\ r.latitude # None
              /\ r.longitude # None
              /\ DistanceFrom(s, r) <= frame[s].response.radius * 100)
                => InBox(r, frame[s].response.center_lat, frame[s].response.center_lng,
                         frame[s].response.radius)

\* C18: a facility stored at exactly the query point is in the nearby result
\* for every radius, provided fewer than limit other facilities are at
\* distance 0 as well.
C18_FacilityAtQueryPointReturned ==
    \A s \in Sessions :
       Answered(s) =>
          \A r \in NearbyTable(s) :
             (/\ r.latitude = Num(frame[s].response.center_lat)
              /\ r.longitude = Num(frame[s].response.center_lng)
              /\ Cardinality({o \in NearbyTable(s) \ {r} :
                                 /\ o.latitude # None
                                 /\ o.longitude # None
                                 /\ DistanceFrom(s, o) = 0}) < frame[s].response.limit)
                => r \in ReturnedRows(s)

\* C19: a facility whose latitude or longitude is null never appears in a
\* nearby result.
C19_NullCoordinatesNeverReturned ==
    \A s \in Sessions :
       Answered(s) =>
          \A r \in ReturnedRows(s) : r.latitude # None /\ r.longitude # None

\* a facility with a null latitude and the query's longitude, one with the
\* query's latitude and a null longitude and one at the query point are
\* stored; only the last was returned
C19_Witness ==
    \E s \in Sessions :
       /\ Answered(s)
       /\ \E r \in NearbyTable(s) :
             r.latitude = None /\ r.longitude = Num(frame[s].response.center_lng)
       /\ \E r \in NearbyTable(s) :
             r.latitude = Num(frame[s].response.center_lat) /\ r.longitude = None
       /\ \E r \in NearbyTable(s) :
             /\ r.latitude = Num(frame[s].response.center_lat)
             /\ r.longitude = Num(frame[s].response.center_lng)
             /\ ReturnedRows(s) = {r}

(***************************************************************************)
(* The record loop over chosen upstream answers                            *)
(***************************************************************************)
\* how many records the facility list and the availability list hold
MaxMergeRecords == 2

MaxMergeEntries == 3

\* the sequences over a set, up to a length
SeqsUpTo(S, n) == UNION {[1..k -> S] : k \in 0..n}

\* S1 again, with no free connector and a source timestamp only
StatusABusy ==
    [t |-> "dict", StationID |-> Str("S1"),
     Connectors |-> <<[t |-> "dict", Status |-> Str("Charging")]>>,
     SrcUpdateTime |-> Iso(5, "+08:00")]

\* the facility lists and availability lists the two endpoints answered
MergeQueues(handler) ==
    IF handler = "parking"
    THEN SeqsUpTo({LotA, LotB, LotNullPosition}, MaxMergeRecords)
    ELSE SeqsUpTo({StA, StB, StNullPosition}, MaxMergeRecords)

\* availability entries without CarParkID / StationID, and with an empty one
AvailNoId == [t |-> "dict", AvailableSpaces |-> Num(7), DataCollectTime |-> Iso(6, "Z")]

AvailEmptyId ==
    [t |-> "dict", CarParkID |-> Str(""), AvailableSpaces |-> Num(8),
     DataCollectTime |-> Iso(6, "Z")]

StatusNoId ==
    [t |-> "dict", Connectors |-> <<[t |-> "dict", Status |-> Str("Available")]>>,
     UpdateTime |-> Iso(6, "Z")]

\* S1 with a timestamp that is no ISO string
StatusABadTime ==
    [t |-> "dict", StationID |-> Str("S1"),
     Connectors |-> <<[t |-> "dict", Status |-> Str("Available")]>>,
     UpdateTime |-> Str("yesterday")]

MergeLives(handler) ==
    IF handler = "parking"
    THEN SeqsUpTo({AvailA(5, Iso(3, "+08:00")), AvailA(3, Str("yesterday")),
                   AvailA(4, Num(20240501)), AvailNoId, AvailEmptyId},
                  MaxMergeEntries)
    ELSE SeqsUpTo({StatusA, StatusABusy, StatusABadTime, StatusNoId}, MaxMergeEntries)

\* the rows an earlier sync of Taipei stored for A1 and S1, with a count and
\* a timestamp
StoredParking ==
    {UpsertRow({}, "park_id",
        ParkingValues(parking_merge_availability(parse_parking_lot(LotA, "Taipei"),
                          BuildMap(<<AvailA(5, Iso(3, "+08:00"))>>, "CarParkID")), 0),
        ParkingSet(parse_parking_lot(LotA, "Taipei"), 0), FacilityDefaults(1, 0))}

StoredCharging ==
    {UpsertRow({}, "station_id",
        ChargingValues(charging_merge_availability(parse_charging_station(StA, "Taipei"),
                           BuildMap(<<StatusA>>, "StationID")), 0),
        ChargingSet(parse_charging_station(StA, "Taipei"), 0), FacilityDefaults(2, 0))}

\* the key of the availability feed of a handler
AvailabilityKey(handler) == IF handler = "parking" THEN "CarParkID" ELSE "StationID"

\* the frame a fetch leaves: the first partition of a run, both answers 200
Fetched(handler, queue, live) ==
    [IdleFrame EXCEPT !.pc = "upsert", !.handler = handler,
                      !.cities_to_sync = <<"Taipei">>, !.i = 1, !.http = 200,
                      !.queue = queue,
                      !.availability_map = BuildMap(live, AvailabilityKey(handler))]

InitMerge ==
    /\ \E stored \in BOOLEAN :
          /\ parking_lots = IF stored THEN StoredParking ELSE {}
          /\ charging_stations = IF stored THEN StoredCharging ELSE {}
          /\ next_id = IF stored THEN 3 ELSE 1
    /\ sync_status = {}
    /\ \E handler \in {"parking", "charging"} :
       \E queue \in MergeQueues(handler) : \E live \in MergeLives(handler) :
          frame = [s \in Sessions |->
                      IF s = 1 THEN Fetched(handler, queue, live) ELSE IdleFrame]
    /\ now = 1
    /\ partitions = 1
    /\ auth = StoreToken(TokenData(0), 0)

NextMerge ==
    \/ SyncUpsert(1)
    \/ SyncStatusSuccess(1)
    \/ SyncExcept(1)
    \/ SyncReturn(1)
    \/ ChargingUpsert(1)
    \/ ChargingCommit(1)
    \/ ChargingExcept(1)
    \/ ChargingReturn(1)

SpecMerge == InitMerge /\ [][NextMerge]_vars

\* parse_*(item, city) for the record the loop is at, before the merge
Unmerged(s) ==
    IF frame[s].handler = "parking"
    THEN parse_parking_lot(Head(frame[s].queue), City(s))
    ELSE parse_charging_station(Head(frame[s].queue), City(s))

\* the loop is at a record that parses and whose external id has no entry in
\* the availability map
AtRecordWithoutEntry(s) ==
    /\ frame[s].pc = "upsert"
    /\ frame[s].queue # <<>>
    /\ ~HeadRaises(s)
    /\ Unmerged(s)[KeyColumn(s)] \notin DOMAIN frame[s].availability_map

\* C20: merge applied to a record whose external id has no entry in the
\* availability map returns the record with every field as it was: the
\* availability field and data_updated_at are not set, and so the statement
\* built from it carries NULL for both.
C20_NoEntryLeavesRecord ==
    \A s \in Sessions :
       AtRecordWithoutEntry(s) =>
          /\ Parsed(s) = Unmerged(s)
          /\ DOMAIN Parsed(s) \cap
                {"available_spaces", "available_chargers", "data_updated_at"} = {}
          /\ Get(Incoming(s), "available_spaces", None) = None
          /\ Get(Incoming(s), "available_chargers", None) = None
          /\ Incoming(s).data_updated_at = None

\* the availability map has an entry for A1 and a car park was written, and
\* the loop is now at B2, which the map does not have
C20_Witness ==
    \E s \in Sessions :
       /\ AtRecordWithoutEntry(s)
       /\ Truthy(Unmerged(s)[KeyColumn(s)])
       /\ DOMAIN frame[s].availability_map # {}
       /\ \E r \in frame[s].tx :
             r[KeyColumn(s)] \in DOMAIN frame[s].availability_map
             /\ r.data_updated_at # None

\* the availability entry for the record the loop is at
Entry(s) == frame[s].availability_map[Unmerged(s)[KeyColumn(s)]]

\* the loop is at a record that parses and has an entry in the availability map
AtRecordWithEntry(s) ==
    /\ frame[s].pc = "upsert"
    /\ frame[s].queue # <<>>
    /\ ~HeadRaises(s)
    /\ Unmerged(s)[KeyColumn(s)] \in DOMAIN frame[s].availability_map

\* avail.get("DataCollectTime") or avail.get("SrcUpdateTime"); for charging
\* avail.get("UpdateTime") or avail.get("SrcUpdateTime")
EntryTime(s) ==
    IF frame[s].handler = "parking"
    THEN Or(Get(Entry(s), "DataCollectTime", None), Get(Entry(s), "SrcUpdateTime", None))
    ELSE Or(Get(Entry(s), "UpdateTime", None), Get(Entry(s), "SrcUpdateTime", None))

\* the offset an ISO 8601 suffix denotes, in hours (the unit of the clock
\* readings of the model)
UtcOffset(tz) ==
    CASE tz = "Z"      -> 0
      [] tz = "+08:00" -> 8

\* C21: every data_updated_at produced by merge denotes the UTC instant of
\* the upstream timestamp: the clock reading less the offset, which is what
\* the same instant written with a Z suffix stores.
C21_StoredTimestampIsUtc ==
    \A s \in Sessions :
       (AtRecordWithEntry(s) /\ Truthy(EntryTime(s)) /\ IsoParses(EntryTime(s))) =>
          Parsed(s).data_updated_at = Dt(EntryTime(s).clock - UtcOffset(EntryTime(s).tz))

\* the entry for the record the loop is at has a timestamp that is not an
\* ISO 8601 string
AtUnparseableTime(s) ==
    /\ AtRecordWithEntry(s)
    /\ Truthy(EntryTime(s))
    /\ ~IsoParses(EntryTime(s))

\* the available count the entry gives
EntryCount(s) ==
    IF frame[s].handler = "parking"
    THEN Get(Entry(s), "AvailableSpaces", None)
    ELSE Num(CountAvailable(Get(Entry(s), "Connectors", <<>>)))

\* the available count of a merged record or of a row
CountOf(s, rec) ==
    IF frame[s].handler = "parking"
    THEN Get(rec, "available_spaces", None)
    ELSE Get(rec, "available_chargers", None)

\* C22: when the matching availability entry carries a timestamp that cannot
\* be parsed, merge does not raise: the record has no data_updated_at, as
\* before the merge, its available count is the entry's, and the loop
\* executes the record's upsert and moves on.
C22_BadTimestampIgnored ==
    [][\A s \in Sessions :
          AtUnparseableTime(s) =>
             /\ "data_updated_at" \notin DOMAIN Parsed(s)
             /\ CountOf(s, Parsed(s)) = EntryCount(s)
             /\ \A c \in DOMAIN Unmerged(s) : Parsed(s)[c] = Unmerged(s)[c]
             /\ frame'[s] # frame[s] =>
                   /\ frame'[s].pc = "upsert"
                   /\ frame'[s].error_msg = ""
                   /\ frame'[s].records_synced = frame[s].records_synced + 1
                   /\ \E r \in frame'[s].tx :
                         /\ r[KeyColumn(s)] = Unmerged(s)[KeyColumn(s)]
                         /\ CountOf(s, r) = EntryCount(s)]_vars

\* a partition whose feed gave A1 the timestamp "yesterday" ended in success
\* with the row of A1 holding the entry's count
C22_Witness ==
    \E s \in Sessions :
       /\ frame[s].log # <<>>
       /\ frame[s].log[1].outcome = "success"
       /\ frame[s].log[1].upserts > 0
       /\ \E r \in parking_lots :
             /\ r.park_id = Str("A1")
             /\ r.available_spaces = Num(3)
             /\ r.data_updated_at = None

\* a name value that can be used: a non-empty string
Usable(v) == v.t = "str" /\ v.v # ""

\* the name the fallback rule gives for an upstream name value: Zh_tw, else
\* En, else "Unknown"; a plain string stands for itself
FallbackName(name) ==
    IF name.t = "dict"
    THEN IF Usable(Get(name, "Zh_tw", None)) THEN name.Zh_tw
         ELSE IF Usable(Get(name, "En", None)) THEN name.En
         ELSE Str("Unknown")
    ELSE IF Usable(name) THEN name
    ELSE Str("Unknown")

\* the raw name of the record the loop is at (None when the key is missing)
RawName(s) ==
    Get(Head(frame[s].queue),
        IF frame[s].handler = "parking" THEN "CarParkName" ELSE "StationName", None)

\* C23: for every raw record, in both domains, the normalized name is the
\* Zh_tw value when usable, otherwise the En value, otherwise "Unknown", and
\* is never empty or null.
C23_NameFallback ==
    \A s \in Sessions :
       (frame[s].pc = "upsert" /\ frame[s].queue # <<>> /\ ~HeadRaises(s)) =>
          /\ Usable(Unmerged(s).name)
          /\ Unmerged(s).name = FallbackName(RawName(s))

\* the handler has answered a sync request that had a valid API key and
\* valid partition keys
SyncAnswered(s) ==
    /\ frame[s].pc = "idle"
    /\ frame[s].handler \in {"parking", "charging"}
    /\ ~NamesUnsupportedKey(s)

\* C24: a sync trigger with a valid API key and valid partition keys always
\* returns an HTTP success response, whatever fails inside a partition.
C24_AlwaysHttpSuccess ==
    \A s \in Sessions : SyncAnswered(s) => frame[s].response.status = 200

\* C25: a sync invocation processes the requested partitions one at a time
\* in request order; each reaches exactly one committed outcome (success or
\* failed) before the next starts, and the invocation ends after the last
\* one: while it runs the log holds one entry for each partition before the
\* one the loop is at, and when it has answered, one for every partition
\* requested.
C25_EveryPartitionOneOutcome ==
    \A s \in Sessions :
       (frame[s].handler \in {"parking", "charging"} /\ ~NamesUnsupportedKey(s)) =>
          /\ Len(frame[s].log) <= Len(frame[s].cities_to_sync)
          /\ \A k \in DOMAIN frame[s].log :
                /\ frame[s].log[k].city = frame[s].cities_to_sync[k]
                /\ frame[s].log[k].outcome \in {"success", "failed"}
          /\ frame[s].pc # "idle" => Len(frame[s].log) = frame[s].i - 1
          /\ frame[s].pc = "idle" => Len(frame[s].log) = Len(frame[s].cities_to_sync)

\* C26: when the record the loop is at already has a stored row and the
\* availability map has no entry for its external id, the upsert sets the
\* row's available count and data_updated_at to NULL; when the entry is
\* there but its timestamp cannot be parsed, the upsert sets data_updated_at
\* to NULL.  The stored values are not kept.
C26_MissingAvailabilityNullsRow ==
    [][\A s \in Sessions :
          (UpsertStep(s) /\ RowsBefore(s) # {}) =>
             /\ RowsAfter(s) # {}
             /\ AtRecordWithoutEntry(s) =>
                   \A r \in RowsAfter(s) :
                      CountOf(s, r) = None /\ r.data_updated_at = None
             /\ AtUnparseableTime(s) =>
                   \A r \in RowsAfter(s) : r.data_updated_at = None]_vars

\* the row of A1 and the row of S1, stored at time 0 with a count and a
\* timestamp, have been written again and committed: one of them now holds
\* NULL for both
C26_Witness ==
    /\ \E r \in parking_lots \cup charging_stations :
          /\ r.created_at = Dt(0)
          /\ r.updated_at # Dt(0)
          /\ r.data_updated_at = None
          /\ Get(r, "available_spaces", None) = None
          /\ Get(r, "available_chargers", None) = None
    /\ \E s \in Sessions : frame[s].log # <<>> /\ frame[s].log[1].outcome = "success"

(***************************************************************************)
(* geocode_charging_stations: POST /api/sync/geocode                       *)
(***************************************************************************)
\* partitions one client may ask for between geocode requests
MaxGeocodePartitions == 1

\* limit: int = 100, and a request that asks for one station
DefaultGeocodeLimit == 100

GeocodeLimits == {1, DefaultGeocodeLimit}

\* the coordinates the geocoding service finds
GeocodedLat == Num(24)

GeocodedLng == Num(120)

\* the stations the query selects: latitude IS NULL OR longitude IS NULL,
\* any limit of them
MissingCoordinates(table, limit) ==
    LET missing == {r \in table : r.latitude = None \/ r.longitude = None}
    IN  {S \in SUBSET missing :
            Cardinality(S) = (IF limit < Cardinality(missing) THEN limit
                              ELSE Cardinality(missing))}

\* verify_api_key, the GOOGLE_MAPS_API_KEY test, the query, the loop that
\* assigns the coordinates the service found (by address, else by name) and
\* db.commit(); updated_at has onupdate=datetime.utcnow
geocode_charging_stations(s) ==
    /\ frame[s].pc = "idle"
    /\ \E key_ok \in BOOLEAN : \E configured \in BOOLEAN : \E limit \in GeocodeLimits :
         IF ~key_ok
         THEN /\ configured
              /\ limit = DefaultGeocodeLimit
              /\ frame' = [frame EXCEPT ![s] =
                              [IdleFrame EXCEPT !.response = [status |-> 403]]]
              /\ UNCHANGED charging_stations
         ELSE IF ~configured
         THEN /\ limit = DefaultGeocodeLimit
              /\ frame' = [frame EXCEPT ![s] =
                              [IdleFrame EXCEPT !.handler = "geocode",
                                                !.response = [status |-> 400]]]
              /\ UNCHANGED charging_stations
         ELSE \E stations \in MissingCoordinates(charging_stations, limit) :
              \E found \in SUBSET {r \in stations : Truthy(r.address) \/ Truthy(r.name)} :
                 /\ charging_stations' =
                       (charging_stations \ found) \cup
                       {[r EXCEPT !.latitude = GeocodedLat, !.longitude = GeocodedLng,
                                  !.updated_at = Dt(now)] : r \in found}
                 /\ frame' = [frame EXCEPT ![s] =
                                 [IdleFrame EXCEPT
                                     !.handler = "geocode",
                                     !.response =
                                         [status |-> 200,
                                          success |-> found # {},
                                          synced_cities |-> <<>>,
                                          total_records |-> Cardinality(found)]]]
    /\ UNCHANGED <<parking_lots, sync_status, now, next_id, partitions, auth>>

\* the rows an earlier sync of NewTaipei stored: S1 with a position, S2
\* without one
StoredStations ==
    {UpsertRow({}, "station_id",
        ChargingValues(parse_charging_station(StA, "NewTaipei"), 0),
        ChargingSet(parse_charging_station(StA, "NewTaipei"), 0), FacilityDefaults(1, 0)),
     UpsertRow({}, "station_id",
        ChargingValues(parse_charging_station(StB, "NewTaipei"), 0),
        ChargingSet(parse_charging_station(StB, "NewTaipei"), 0), FacilityDefaults(2, 0))}

InitGeocode ==
    /\ parking_lots = {}
    /\ charging_stations = StoredStations
    /\ sync_status = {}
    /\ frame = [s \in Sessions |-> IdleFrame]
    /\ now = 1
    /\ next_id = 3
    /\ partitions = 0
    /\ auth = StoreToken(TokenData(0), 0)

NextGeocode ==
    \/ geocode_charging_stations(1)
    \/ TriggerChargingSync(1, MaxGeocodePartitions)
    \/ ChargingFetch(1)
    \/ ChargingUpsert(1)
    \/ ChargingCommit(1)
    \/ ChargingExcept(1)
    \/ ChargingReturn(1)

SpecGeocode == InitGeocode /\ [][NextGeocode]_vars

C28_ZeroCoordinateOmitted ==
    \A s \in Sessions :
       Answered(s) =>
          \A r \in NearbyTable(s) :
             (r.latitude = Num(0) \/ r.longitude = Num(0)) => r \notin ReturnedRows(s)

\* a facility stored on the prime meridian, at distance 0 of the query point
\* and inside the box, left out of a response that has room for it
C28_Witness ==
    \E s \in Sessions : \E r \in NearbyTable(s) :
       /\ Answered(s)
       /\ Truthy(r.latitude)
       /\ r.longitude = Num(0)
       /\ InBox(r, frame[s].response.center_lat, frame[s].response.center_lng,
                frame[s].response.radius)
       /\ DistanceFrom(s, r) = 0
       /\ Len(frame[s].response.items) < frame[s].response.limit
       /\ r \notin ReturnedRows(s)

\* the last entry of a feed that carries an id
LastWith(live, key, k) ==
    live[CHOOSE i \in DOMAIN live :
            /\ Get(live[i], key, None) = k
            /\ \A j \in DOMAIN live : j > i => Get(live[j], key, None) # k]

\* the available count one availability entry gives
CountIn(handler, entry) ==
    IF handler = "parking"
    THEN Get(entry, "AvailableSpaces", None)
    ELSE Num(CountAvailable(Get(entry, "Connectors", <<>>)))

\* C29: whichever availability feed the map of a run was built from, the map
\* holds exactly the non-empty ids of the feed, each with the last entry of
\* the feed that carries it, and the count merged into a record is that one
\* entry's (for a station, the available connectors of that entry alone).
C29_LastDuplicateWins ==
    \A s \in Sessions :
       frame[s].pc = "upsert" =>
          \A live \in MergeLives(frame[s].handler) :
             LET key  == AvailabilityKey(frame[s].handler)
                 map  == frame[s].availability_map
                 kept == {k \in {Get(live[i], key, None) : i \in DOMAIN live} : Truthy(k)}
             IN  BuildMap(live, key) = map =>
                    /\ DOMAIN map = kept
                    /\ None \notin DOMAIN map /\ Str("") \notin DOMAIN map
                    /\ \A k \in kept : map[k] = LastWith(live, key, k)
                    /\ AtRecordWithEntry(s) =>
                          CountOf(s, Parsed(s)) =
                             CountIn(frame[s].handler,
                                     LastWith(live, key, Unmerged(s)[KeyColumn(s)]))

\* the map of the run comes from a feed of three entries, two for the same
\* id with different counts and one without an id; the map has the one id,
\* and the row written for it holds the count of the later entry
C29_Witness ==
    \E s \in Sessions : \E live \in MergeLives(frame[s].handler) :
       LET key == AvailabilityKey(frame[s].handler)
       IN  /\ frame[s].pc = "upsert"
           /\ BuildMap(live, key) = frame[s].availability_map
           /\ Len(live) = 3
           /\ \E i, j \in DOMAIN live :
                 /\ i < j
                 /\ Truthy(Get(live[i], key, None))
                 /\ Get(live[i], key, None) = Get(live[j], key, None)
                 /\ CountIn(frame[s].handler, live[i]) # CountIn(frame[s].handler, live[j])
                 /\ \A m \in DOMAIN live : m > j => ~Truthy(Get(live[m], key, None))
                 /\ \E r \in frame[s].tx :
                       /\ r[KeyColumn(s)] = Get(live[j], key, None)
                       /\ CountOf(s, r) = CountIn(frame[s].handler, live[j])
           /\ \E m \in DOMAIN live : ~Truthy(Get(live[m], key, None))
           /\ Cardinality(DOMAIN frame[s].availability_map) = 1

(***************************************************************************)
(* The response of a sync run                                              *)
(***************************************************************************)
\* the partitions of a run that ended in the success path
SuccessEntries(log) == SelectSeq(log, LAMBDA e : e.outcome = "success")

RECURSIVE TotalUpserts(_)
\* the upserts of a list of partitions, summed
TotalUpserts(entries) ==
    IF entries = <<>> THEN 0
    ELSE Head(entries).upserts + TotalUpserts(Tail(entries))

\* the cities of a list of partitions, in its order
CitiesOf(entries) == [k \in DOMAIN entries |-> entries[k].city]

\* the session holds the response a sync run returned
SyncReturned(s) ==
    /\ frame[s].pc = "idle"
    /\ frame[s].handler \in {"parking", "charging"}
    /\ frame[s].response.status = 200

\* C30: in the response of a sync run, synced_cities is the list of the
\* partitions that succeeded, in request order, total_records is the sum of
\* their upserts (a failed partition adds nothing, whatever it wrote before
\* it failed, and is not listed), and success is true exactly when
\* synced_cities is not empty.
C30_ResponseTotals ==
    \A s \in Sessions :
       SyncReturned(s) =>
          LET log == frame[s].log
              ok  == SuccessEntries(log)
              res == frame[s].response
          IN  /\ CitiesOf(log) = frame[s].cities_to_sync
              /\ res.synced_cities = CitiesOf(ok)
              /\ res.total_records = TotalUpserts(ok)
              /\ \A k \in DOMAIN log :
                    log[k].outcome # "success" =>
                       \A j \in DOMAIN res.synced_cities : res.synced_cities[j] # log[k].city
              /\ res.success = (res.synced_cities # <<>>)

\* a run of several partitions returned: one failed after it had executed an
\* upsert, a later one succeeded with upserts of its own, and the response
\* reports success
C30_Witness ==
    \E s \in Sessions :
       /\ SyncReturned(s)
       /\ frame[s].response.success
       /\ \E j, k \in DOMAIN frame[s].log :
             /\ j < k
             /\ frame[s].log[j].outcome = "failed"
             /\ frame[s].log[j].upserts > 0
             /\ frame[s].log[k].outcome = "success"
             /\ frame[s].log[k].upserts > 0

====
